---- MODULE Spec2Model ----
(***************************************************************************)
(* JusticeAI: the drift detector / drift monitor, the alerting dispatcher  *)
(* and the fairness calculator, modelled as state machines.                *)
(*                                                                         *)
(* Numbers.  A metric value k stands for the float k * 2^-3; values of     *)
(* this form, their differences and their small multiples are exact in     *)
(* binary floating point, so the integer arithmetic below is the float     *)
(* arithmetic of the code.  A drift score s stands for s/1000 of that unit *)
(* (the PSI score needs a logarithm, tabulated to three decimals).         *)
(***************************************************************************)
EXTENDS Integers, Sequences, FiniteSets, TLC

VARIABLES
    detector,   \* a FairnessDriftDetector: baseline_metrics, method, threshold
    held,       \* the DriftResult the caller holds from its last detect call
    monitor,    \* a MetricsDriftMonitor: baseline_metrics, window_size, history
    nobs,       \* number of add_observation calls made so far
    inserted,   \* the (timestamp, metrics) of every add_observation call, in call order
    alerting,   \* a FairnessAlerting: config, channels, last_alert_time
    sends,      \* the channel.send invocations of the last send_drift_alert
    calc,       \* a FairnessCalculator: cache_results, cache, validated
    nalloc,     \* number of result objects the calculator has allocated
    firstret,   \* per kind of call, the object the first successful call returned
                \* since construction or the last clear_cache()
    analyzer,   \* a ThresholdAnalyzer: its configuration, results_, optimal_threshold_
    analyzed,   \* analyze has been called on the analyzer
    handed,     \* the baseline most recently handed to the detector, by its
                \* constructor or by update_baseline, and the one it replaced
    now,        \* the wall clock, in seconds
    dispatched, \* the clock reading of the last send_drift_alert that dispatched
    report,     \* a FairnessReport: the HTML it has cached in _html
    files,      \* the HTML files written so far, by output path
    last        \* the last operation: its name, arguments and outcome

vars == <<detector, held, monitor, nobs, inserted, alerting, sends, calc, nalloc, firstret,
          analyzer, analyzed, handed, now, dispatched, last,
         report, files>>

-----------------------------------------------------------------------------
(* Bounds of the model *)

MaxVal == 3
MaxThreshold == 1
MaxWindow == 2
MaxObs == 3
MaxBatch == 4
MaxLen == 2
MaxCalls == 2

-----------------------------------------------------------------------------
(* Values *)

None == "None"

\* the metrics an observation reports
MetricNames == {"sp", "eo"}

\* the metrics a wide baseline holds
BaselineNames == {"sp", "eo", "pp", "acc", "te"}

Vals == 0..MaxVal

\* dict[str, float] over the metric names
MetricMaps == UNION {[D -> Vals] : D \in SUBSET MetricNames}

Thresholds == 0..MaxThreshold

SupportedMethods == {"threshold", "psi", "ks"}

MethodInputs == SupportedMethods \cup {"chi2"}

Abs(x) == IF x < 0 THEN -x ELSE x

RECURSIVE SumOver(_, _)
SumOver(f, S) ==
    IF S = {} THEN 0
    ELSE LET m == CHOOSE x \in S : TRUE
         IN f[m] + SumOver(f, S \ {m})

\* 1000 * ln(max(k * 2^-3, 1e-10) / 2^-3), rounded
LnMilli(k) ==
    CASE k <= 0 -> -20946
      [] k = 1 -> 0
      [] k = 2 -> 693
      [] k = 3 -> 1099
      [] k = 4 -> 1386
      [] k = 5 -> 1609
      [] OTHER -> 1792

-----------------------------------------------------------------------------
(* FairnessDriftDetector *)

\* a slip: the method is looked at only when detect dispatches on it
FairnessDriftDetector_init_Unchecked(baseline_metrics, method, threshold) ==
    [raised |-> None,
     self   |-> [baseline_metrics |-> baseline_metrics,
                 method           |-> method,
                 threshold        |-> threshold]]

\* __init__: the fields are assigned, then an unsupported method raises
FairnessDriftDetector_init(baseline_metrics, method, threshold) ==
    [raised |-> IF method \notin {"threshold", "psi", "ks"} THEN "ValueError" ELSE None,
     self   |-> [baseline_metrics |-> baseline_metrics,
                 method           |-> method,
                 threshold        |-> threshold]]

\* diff = abs(new_value - baseline_value)
ThresholdDiff(baseline_value, new_value) == Abs(new_value - baseline_value) * 1000

\* abs((new_adj - baseline_adj) * log(new_adj / baseline_adj))
PsiScore(baseline_value, new_value) ==
    Abs(new_value - baseline_value) * Abs(LnMilli(new_value) - LnMilli(baseline_value))

\* the metrics the loop scores: baseline metrics that are in new_metrics
ScoredNames(self, new_metrics) ==
    {m \in DOMAIN self.baseline_metrics : m \in DOMAIN new_metrics}

\* a slip in the comparison: >= for >
ExceedsThreshold_Inclusive(diff, threshold) == diff >= threshold * 1000

\* if diff > self.threshold
ExceedsThreshold(diff, threshold) == diff > threshold * 1000

\* if abs(psi) > psi_threshold, psi_threshold = self.threshold * 2.5
ExceedsPsiThreshold(psi, threshold) == psi > threshold * 2500

\* a slip in the count: has_drift only from the second drifted metric on
HasDrift_OffByOne(drifted_metrics) == Cardinality(DOMAIN drifted_metrics) > 1

\* has_drift = len(drifted_metrics) > 0
HasDrift(drifted_metrics) == Cardinality(DOMAIN drifted_metrics) > 0

detect_threshold(self, new_metrics) ==
    LET drift_scores == [m \in ScoredNames(self, new_metrics) |->
                            ThresholdDiff(self.baseline_metrics[m], new_metrics[m])]
        drifted == {m \in DOMAIN drift_scores :
                        ExceedsThreshold(drift_scores[m], self.threshold)}
        drifted_metrics == [m \in drifted |-> drift_scores[m]]
    IN [has_drift       |-> HasDrift(drifted_metrics),
        drifted_metrics |-> drifted_metrics,
        drift_scores    |-> drift_scores,
        method          |-> "threshold",
        threshold       |-> self.threshold,
        details         |-> [baseline_metrics |-> self.baseline_metrics,
                             new_metrics      |-> new_metrics,
                             num_drifted      |-> Cardinality(DOMAIN drifted_metrics)]]

detect_psi(self, new_metrics) ==
    LET drift_scores == [m \in ScoredNames(self, new_metrics) |->
                            PsiScore(self.baseline_metrics[m], new_metrics[m])]
        drifted == {m \in DOMAIN drift_scores :
                        ExceedsPsiThreshold(drift_scores[m], self.threshold)}
        drifted_metrics == [m \in drifted |-> drift_scores[m]]
    IN [has_drift       |-> HasDrift(drifted_metrics),
        drifted_metrics |-> drifted_metrics,
        drift_scores    |-> drift_scores,
        method          |-> "psi",
        threshold       |-> self.threshold,
        details         |-> [baseline_metrics |-> self.baseline_metrics,
                             new_metrics      |-> new_metrics,
                             num_drifted      |-> Cardinality(DOMAIN drifted_metrics),
                             psi_threshold    |-> self.threshold * 2500]]

\* a slip: the KS statistic is compared with >= where _detect_threshold has >
detect_ks_Inclusive(self, new_metrics) ==
    LET drift_scores == [m \in ScoredNames(self, new_metrics) |->
                            ThresholdDiff(self.baseline_metrics[m], new_metrics[m])]
        drifted == {m \in DOMAIN drift_scores :
                        ExceedsThreshold_Inclusive(drift_scores[m], self.threshold)}
        drifted_metrics == [m \in drifted |-> drift_scores[m]]
    IN [has_drift       |-> HasDrift(drifted_metrics),
        drifted_metrics |-> drifted_metrics,
        drift_scores    |-> drift_scores,
        method          |-> "ks",
        threshold       |-> self.threshold,
        details         |-> [baseline_metrics |-> self.baseline_metrics,
                             new_metrics      |-> new_metrics,
                             num_drifted      |-> Cardinality(DOMAIN drifted_metrics),
                             note             |-> "Simplified KS test"]]

detect_ks(self, new_metrics) ==
    LET drift_scores == [m \in ScoredNames(self, new_metrics) |->
                            ThresholdDiff(self.baseline_metrics[m], new_metrics[m])]
        drifted == {m \in DOMAIN drift_scores :
                        ExceedsThreshold(drift_scores[m], self.threshold)}
        drifted_metrics == [m \in drifted |-> drift_scores[m]]
    IN [has_drift       |-> HasDrift(drifted_metrics),
        drifted_metrics |-> drifted_metrics,
        drift_scores    |-> drift_scores,
        method          |-> "ks",
        threshold       |-> self.threshold,
        details         |-> [baseline_metrics |-> self.baseline_metrics,
                             new_metrics      |-> new_metrics,
                             num_drifted      |-> Cardinality(DOMAIN drifted_metrics),
                             note             |-> "Simplified KS test"]]

\* detect: dispatch on self.method; the result is [raised, value]
detect(self, new_metrics) ==
    IF self.method = "threshold"
    THEN [raised |-> None, value |-> detect_threshold(self, new_metrics)]
    ELSE IF self.method = "psi"
    THEN [raised |-> None, value |-> detect_psi(self, new_metrics)]
    ELSE IF self.method = "ks"
    THEN [raised |-> None, value |-> detect_ks(self, new_metrics)]
    ELSE [raised |-> "ValueError", value |-> None]

\* a slip: the new baseline is merged into the old one
update_baseline_Merge(self, new_baseline) ==
    [self EXCEPT !.baseline_metrics = new_baseline @@ self.baseline_metrics]

update_baseline(self, new_baseline) ==
    [self EXCEPT !.baseline_metrics = new_baseline]

\* _assess_drift_severity; num_drifted / total_metrics raises on an empty baseline
assess_drift_severity(self, result) ==
    LET num_drifted == Cardinality(DOMAIN result.drifted_metrics)
        total_metrics == Cardinality(DOMAIN self.baseline_metrics)
        sum_drift == SumOver(result.drifted_metrics, DOMAIN result.drifted_metrics)
    IN IF ~(num_drifted > 0)
       THEN [raised |-> None, value |-> "none"]
       ELSE IF total_metrics = 0
       THEN [raised |-> "ZeroDivisionError", value |-> None]
       ELSE IF num_drifted * 2 >= total_metrics
               \/ sum_drift > self.threshold * 3 * 1000 * num_drifted
       THEN [raised |-> None, value |-> "high"]
       ELSE IF num_drifted * 4 >= total_metrics
               \/ sum_drift > self.threshold * 2 * 1000 * num_drifted
       THEN [raised |-> None, value |-> "medium"]
       ELSE [raised |-> None, value |-> "low"]

get_drift_summary(self, result) ==
    LET sev == assess_drift_severity(self, result)
        base == [drift_detected      |-> result.has_drift,
                 method              |-> result.method,
                 threshold           |-> result.threshold,
                 num_metrics_checked |-> Cardinality(DOMAIN self.baseline_metrics),
                 num_drifted         |-> Cardinality(DOMAIN result.drifted_metrics)]
    IN IF result.has_drift
       THEN IF sev.raised # None
            THEN [raised |-> sev.raised, value |-> None]
            ELSE [raised |-> None,
                  value  |-> [drift_detected      |-> base.drift_detected,
                              method              |-> base.method,
                              threshold           |-> base.threshold,
                              num_metrics_checked |-> base.num_metrics_checked,
                              num_drifted         |-> base.num_drifted,
                              drifted_metrics     |-> DOMAIN result.drifted_metrics,
                              severity            |-> sev.value]]
       ELSE [raised |-> None,
             value  |-> [drift_detected      |-> base.drift_detected,
                         method              |-> base.method,
                         threshold           |-> base.threshold,
                         num_metrics_checked |-> base.num_metrics_checked,
                         num_drifted         |-> base.num_drifted,
                         severity            |-> "none"]]

-----------------------------------------------------------------------------
(* MetricsDriftMonitor *)

\* Python's lst[start:] for an integer start
SliceFrom(lst, start) ==
    LET n == Len(lst)
        first == IF start < 0
                 THEN (IF n + start < 0 THEN 0 ELSE n + start)
                 ELSE (IF start > n THEN n ELSE start)
    IN SubSeq(lst, first + 1, n)

\* __init__; the detector it builds is the variable detector
MetricsDriftMonitor_init(baseline_metrics, window_size) ==
    [baseline_metrics |-> baseline_metrics,
     window_size      |-> window_size,
     history          |-> << >>]

\* MetricsDriftMonitor(...): [raised, self, detector]; the exception of the
\* detector's constructor leaves __init__
MonitorBuilt(built, baseline_metrics, window_size) ==
    [raised   |-> built.raised,
     self     |-> MetricsDriftMonitor_init(baseline_metrics, window_size),
     detector |-> built.self]

MetricsDriftMonitor_new(baseline_metrics, window_size, method, threshold) ==
    MonitorBuilt(FairnessDriftDetector_init(baseline_metrics, method, threshold),
                 baseline_metrics, window_size)

\* the entry add_observation appends
Observation(timestamp, metrics, result) ==
    [timestamp |-> timestamp, metrics |-> metrics, drift_result |-> result]

\* the history after the append and the window cut
KeepRecent(history, window_size) ==
    IF Len(history) > window_size
    THEN SliceFrom(history, -window_size)
    ELSE history

\* a slip: the observation is compared with the previous observation
add_observation_AgainstPrevious(self, det, metrics, timestamp) ==
    LET ref == IF Len(self.history) = 0 THEN det
               ELSE [det EXCEPT !.baseline_metrics =
                                   self.history[Len(self.history)].metrics]
        r == detect(ref, metrics)
    IN [raised |-> r.raised,
        value  |-> r.value,
        self   |-> [self EXCEPT !.history =
                       Append(self.history, [timestamp |-> timestamp, metrics |-> metrics,
                                             drift_result |-> r.value])]]

\* a slip: one result object is reused, so every entry of the history shows
\* the result of the latest detect
add_observation_SharedResult(self, det, metrics, timestamp) ==
    LET r == detect(det, metrics)
    IN IF r.raised # None
       THEN [raised |-> r.raised, value |-> None, self |-> self]
       ELSE [raised |-> None,
             value  |-> r.value,
             self   |-> [self EXCEPT !.history =
                            KeepRecent(Append([i \in 1..Len(self.history) |->
                                                  [self.history[i] EXCEPT !.drift_result = r.value]],
                                              Observation(timestamp, metrics, r.value)),
                                       self.window_size)]]

\* add_observation: [raised, value, self] with self the monitor afterwards
add_observation(self, det, metrics, timestamp) ==
    LET r == detect(det, metrics)
    IN IF r.raised # None
       THEN [raised |-> r.raised, value |-> None, self |-> self]
       ELSE [raised |-> None,
             value  |-> r.value,
             self   |-> [self EXCEPT !.history =
                            KeepRecent(Append(self.history,
                                              Observation(timestamp, metrics, r.value)),
                                       self.window_size)]]

\* sum(1 for obs in self.history if obs["drift_result"].has_drift)
DriftCount(history) ==
    Cardinality({i \in 1..Len(history) : history[i].drift_result.has_drift})

\* a slip in the comparison: >= for >
RatioAboveAlert_Inclusive(drift_count, n) == drift_count * 10 >= 3 * n

\* drift_ratio > 0.3, with drift_ratio = drift_count / len(self.history)
RatioAboveAlert(drift_count, n) == drift_count * 10 > 3 * n

check_drift(self) ==
    IF Len(self.history) = 0
    THEN [has_drift |-> FALSE, num_observations |-> 0]
    ELSE [has_drift        |-> RatioAboveAlert(DriftCount(self.history), Len(self.history)),
          drift_ratio      |-> <<DriftCount(self.history), Len(self.history)>>,
          num_observations |-> Len(self.history),
          num_with_drift   |-> DriftCount(self.history),
          latest_result    |-> self.history[Len(self.history)].drift_result]

\* the scores of metric m over the history, in order
RECURSIVE TrendOf(_, _)
TrendOf(history, m) ==
    IF history = << >> THEN << >>
    ELSE LET obs == history[Len(history)]
             rest == TrendOf(SubSeq(history, 1, Len(history) - 1), m)
         IN IF m \in DOMAIN obs.drift_result.drift_scores
            THEN Append(rest, obs.drift_result.drift_scores[m])
            ELSE rest

\* a slip: an observation that did not score a metric counts as a score of 0.0
get_drift_trend_Padded(self) ==
    LET seen == UNION {DOMAIN self.history[i].drift_result.drift_scores :
                          i \in 1..Len(self.history)}
    IN [m \in seen |->
           [i \in 1..Len(self.history) |->
               IF m \in DOMAIN self.history[i].drift_result.drift_scores
               THEN self.history[i].drift_result.drift_scores[m]
               ELSE 0]]

get_drift_trend(self) ==
    LET seen == UNION {DOMAIN self.history[i].drift_result.drift_scores :
                          i \in 1..Len(self.history)}
    IN [m \in seen |-> TrendOf(self.history, m)]

-----------------------------------------------------------------------------
(* FairnessAlerting.  A channel is modelled by what its send does: "ok"     *)
(* returns True, "fail" returns False, "raise" raises an Exception.  The   *)
(* channels dict is its keys in insertion order (order) and its values.    *)

ChannelKinds == {"ok", "fail", "raise"}

\* AlertConfig and FairnessAlerting.__init__
FairnessAlerting_init(enabled, severity_threshold, rate_limit_seconds) ==
    [config |-> [enabled            |-> enabled,
                 severity_threshold |-> severity_threshold,
                 rate_limit_seconds |-> rate_limit_seconds],
     order           |-> << >>,
     channels        |-> << >>,
     last_alert_time |-> << >>]

\* self.channels[name] = channel
add_channel(self, name, channel) ==
    [self EXCEPT
        !.order    = IF name \in DOMAIN self.channels THEN @ ELSE Append(@, name),
        !.channels = [n \in (DOMAIN self.channels) \cup {name} |->
                         IF n = name THEN channel ELSE self.channels[n]]]

\* a sequence without the elements equal to x
RECURSIVE Without(_, _)
Without(seq, x) ==
    IF seq = << >> THEN << >>
    ELSE IF Head(seq) = x THEN Without(Tail(seq), x)
    ELSE <<Head(seq)>> \o Without(Tail(seq), x)

\* if name in self.channels: del self.channels[name]
remove_channel(self, name) ==
    IF name \in DOMAIN self.channels
    THEN [self EXCEPT
             !.order    = Without(@, name),
             !.channels = [n \in (DOMAIN self.channels) \ {name} |-> self.channels[n]]]
    ELSE self

\* severity_levels.get(name, 1)
SeverityLevel(name) ==
    CASE name = "low" -> 1
      [] name = "medium" -> 2
      [] name = "high" -> 3
      [] OTHER -> 1

\* _should_alert
should_alert(self, severity) ==
    SeverityLevel(severity) >= SeverityLevel(self.config.severity_threshold)

\* a slip: no try/except around send, the first exception ends the loop
RECURSIVE SendToChannels_Unguarded(_, _, _, _)
SendToChannels_Unguarded(self, names, alert_data, acc) ==
    IF names = << >> THEN acc
    ELSE LET name == Head(names)
             sent == Append(acc.sent, [channel |-> name, alert_data |-> alert_data])
         IN IF self.channels[name] = "raise"
            THEN [results |-> acc.results, sent |-> sent, raised |-> "Exception"]
            ELSE SendToChannels_Unguarded(self, Tail(names), alert_data,
                    [results |-> [n \in (DOMAIN acc.results) \cup {name} |->
                                     IF n = name THEN self.channels[name] = "ok"
                                     ELSE acc.results[n]],
                     sent    |-> sent,
                     raised  |-> None])

\* the loop over self.channels.items(): every send is tried, an exception or a
\* False return is recorded as False; the result is [results, sent]
RECURSIVE SendToChannels(_, _, _, _)
SendToChannels(self, names, alert_data, acc) ==
    IF names = << >> THEN acc
    ELSE LET name == Head(names)
             success == (self.channels[name] = "ok")
         IN SendToChannels(self, Tail(names), alert_data,
                [results |-> [n \in (DOMAIN acc.results) \cup {name} |->
                                 IF n = name THEN success ELSE acc.results[n]],
                 sent    |-> Append(acc.sent,
                                    [channel |-> name, alert_data |-> alert_data]),
                 raised  |-> None])

\* send_drift_alert: [raised, value, sent, dispatched]
send_drift_alert(self, drift_result, det, timestamp) ==
    LET quiet == [raised |-> None, value |-> << >>, sent |-> << >>, dispatched |-> FALSE]
    IN IF ~self.config.enabled THEN quiet
       ELSE IF ~drift_result.has_drift THEN quiet
       ELSE LET summary == get_drift_summary(det, drift_result)
            IN IF summary.raised # None
               THEN [raised |-> summary.raised, value |-> << >>, sent |-> << >>,
                     dispatched |-> FALSE]
               ELSE IF ~should_alert(self, summary.value.severity) THEN quiet
               ELSE LET alert_data ==
                            [severity        |-> summary.value.severity,
                             drifted_metrics |-> DOMAIN drift_result.drifted_metrics,
                             drift_scores    |-> drift_result.drift_scores,
                             method          |-> drift_result.method,
                             threshold       |-> drift_result.threshold,
                             timestamp       |-> timestamp,
                             num_drifted     |-> Cardinality(DOMAIN drift_result.drifted_metrics),
                             num_total       |-> summary.value.num_metrics_checked]
                        done == SendToChannels(self, self.order, alert_data,
                                    [results |-> << >>, sent |-> << >>, raised |-> None])
                    IN [raised |-> done.raised, value |-> done.results,
                        sent |-> done.sent, dispatched |-> TRUE]

-----------------------------------------------------------------------------
(* Group metric functions (posttrain.py).  A rate r stands for the float   *)
(* r / RateScale; RateScale is a multiple of every denominator a batch of  *)
(* at most MaxBatch rows can produce, so the rates are exact.  A ratio is  *)
(* the pair <<numerator, denominator>> of the two rates divided.           *)

RECURSIVE GCD(_, _)
GCD(a, b) == IF b = 0 THEN a ELSE GCD(b, a % b)

RECURSIVE LcmUpTo(_)
LcmUpTo(n) == IF n <= 1 THEN 1 ELSE (LcmUpTo(n - 1) * n) \div GCD(LcmUpTo(n - 1), n)

RateScale == 2 * LcmUpTo(MaxBatch)

\* a slip: a rate without cases counts as 1.0
Rate_OneOnZero(num, den) == IF den > 0 THEN (num * RateScale) \div den ELSE RateScale

\* num / den if den > 0 else 0.0
Rate(num, den) == IF den > 0 THEN (num * RateScale) \div den ELSE 0

\* rest with x appended unless already in it
AppendNew(rest, x) ==
    IF \E i \in 1..Len(rest) : rest[i] = x THEN rest ELSE Append(rest, x)

\* sensitive_attr.unique(): the distinct values in order of first appearance
RECURSIVE Unique(_)
Unique(seq) ==
    IF seq = << >> THEN << >>
    ELSE AppendNew(Unique(SubSeq(seq, 1, Len(seq) - 1)), seq[Len(seq)])

Elems(seq) == {seq[i] : i \in 1..Len(seq)}

\* the rows selected by mask = sensitive_attr == group
Rows(sensitive_attr, group) ==
    {i \in 1..Len(sensitive_attr) : sensitive_attr[i] = group}

MaxOf(S) == CHOOSE x \in S : \A y \in S : y <= x

MinOf(S) == CHOOSE x \in S : \A y \in S : x <= y

\* a slip: the largest value alone, as if a group with value 0 were present
SpreadOf_FromZero(values) == IF values = {} THEN 0 ELSE MaxOf(values)

\* max(values) - min(values) if values else 0.0
SpreadOf(values) == IF values = {} THEN 0 ELSE MaxOf(values) - MinOf(values)

Spread(by_group, field) == SpreadOf({by_group[g][field] : g \in DOMAIN by_group})

\* the dict a difference metric returns; is_fair is difference < 1 / per
FairnessOf(by_group, difference, per) ==
    [by_group   |-> by_group,
     difference |-> difference,
     is_fair    |-> difference * per < RateScale]

\* the confusion counts of a set of rows
TP(y_true, y_pred, rows) == Cardinality({i \in rows : y_true[i] = 1 /\ y_pred[i] = 1})

TN(y_true, y_pred, rows) == Cardinality({i \in rows : y_true[i] = 0 /\ y_pred[i] = 0})

FP(y_true, y_pred, rows) == Cardinality({i \in rows : y_true[i] = 0 /\ y_pred[i] = 1})

FN(y_true, y_pred, rows) == Cardinality({i \in rows : y_true[i] = 1 /\ y_pred[i] = 0})

\* np.mean(y_pred[mask])
SelectionRate(y_pred, rows) ==
    Rate(Cardinality({i \in rows : y_pred[i] = 1}), Cardinality(rows))

\* min_rate / max_rate if max_rate > 0 else 1.0
RateRatio(min_rate, max_rate) ==
    IF max_rate > 0 THEN <<min_rate, max_rate>> ELSE <<1, 1>>

ParityEntry(y_pred, rows) ==
    [selection_rate |-> SelectionRate(y_pred, rows),
     total_samples  |-> Cardinality(rows)]

ParityOf(by_group, max_rate, min_rate) ==
    [by_group   |-> by_group,
     difference |-> max_rate - min_rate,
     ratio      |-> RateRatio(min_rate, max_rate),
     is_fair    |-> (max_rate - min_rate) * 10 < RateScale]

ParityOver(by_group, rates) ==
    ParityOf(by_group,
             IF rates # {} THEN MaxOf(rates) ELSE 0,
             IF rates # {} THEN MinOf(rates) ELSE 0)

ParityOfGroups(by_group) ==
    ParityOver(by_group, {by_group[g].selection_rate : g \in DOMAIN by_group})

statistical_parity(y_pred, sensitive_attr) ==
    ParityOfGroups([g \in Elems(Unique(sensitive_attr)) |->
                       ParityEntry(y_pred, Rows(sensitive_attr, g))])

\* ratio >= 0.8
PassesEightyRule(ratio) == ratio[1] * 10 >= 8 * ratio[2]

\* max(selection_rates, key=selection_rates.get): the first group, in
\* insertion order, with the largest rate; min likewise
FirstWith(order, by_group, rate) ==
    order[CHOOSE i \in 1..Len(order) :
             /\ by_group[order[i]] = rate
             /\ \A j \in 1..(i - 1) : by_group[order[j]] # rate]

ImpactOf(order, by_group, max_rate, min_rate, ratio) ==
    [ratio               |-> ratio,
     passes_80_rule      |-> PassesEightyRule(ratio),
     advantaged_group    |-> FirstWith(order, by_group, max_rate),
     disadvantaged_group |-> FirstWith(order, by_group, min_rate),
     by_group            |-> by_group]

ImpactOver(order, by_group, max_rate, min_rate) ==
    ImpactOf(order, by_group, max_rate, min_rate, RateRatio(min_rate, max_rate))

\* a slip: without groups the ratio is reported as 0.0
ImpactOfGroups_ZeroOnEmpty(order, by_group, rates) ==
    IF DOMAIN by_group = {}
    THEN [ratio |-> <<0, 1>>, passes_80_rule |-> FALSE, advantaged_group |-> None,
          disadvantaged_group |-> None, by_group |-> << >>]
    ELSE ImpactOver(order, by_group, MaxOf(rates), MinOf(rates))

ImpactOfGroups(order, by_group, rates) ==
    IF DOMAIN by_group = {}
    THEN [ratio |-> <<1, 1>>, passes_80_rule |-> TRUE, advantaged_group |-> None,
          disadvantaged_group |-> None, by_group |-> << >>]
    ELSE ImpactOver(order, by_group, MaxOf(rates), MinOf(rates))

ImpactOfRates(order, by_group) ==
    ImpactOfGroups(order, by_group, {by_group[g] : g \in DOMAIN by_group})

ImpactInOrder(y_pred, sensitive_attr, order) ==
    ImpactOfRates(order,
                  [g \in Elems(order) |-> SelectionRate(y_pred, Rows(sensitive_attr, g))])

disparate_impact(y_pred, sensitive_attr) ==
    ImpactInOrder(y_pred, sensitive_attr, Unique(sensitive_attr))

OpportunityEntry(tp, fn) ==
    [tpr |-> Rate(tp, tp + fn), true_positives |-> tp, false_negatives |-> fn]

OpportunityOf(by_group) == FairnessOf(by_group, Spread(by_group, "tpr"), 10)

equal_opportunity(y_true, y_pred, sensitive_attr) ==
    OpportunityOf([g \in Elems(Unique(sensitive_attr)) |->
                      OpportunityEntry(TP(y_true, y_pred, Rows(sensitive_attr, g)),
                                       FN(y_true, y_pred, Rows(sensitive_attr, g)))])

OddsEntry(tp, tn, fp, fn) ==
    [tpr |-> Rate(tp, tp + fn), fpr |-> Rate(fp, fp + tn),
     tp |-> tp, tn |-> tn, fp |-> fp, fn |-> fn]

\* a slip: is_fair looks at the false positive rates only
OddsOver_FprOnly(by_group, tpr_difference, fpr_difference) ==
    [by_group       |-> by_group,
     tpr_difference |-> tpr_difference,
     fpr_difference |-> fpr_difference,
     is_fair        |-> fpr_difference * 10 < RateScale]

OddsOver(by_group, tpr_difference, fpr_difference) ==
    [by_group       |-> by_group,
     tpr_difference |-> tpr_difference,
     fpr_difference |-> fpr_difference,
     is_fair        |-> tpr_difference * 10 < RateScale /\ fpr_difference * 10 < RateScale]

OddsOf(by_group) == OddsOver(by_group, Spread(by_group, "tpr"), Spread(by_group, "fpr"))

OddsEntryOf(y_true, y_pred, rows) ==
    OddsEntry(TP(y_true, y_pred, rows), TN(y_true, y_pred, rows),
              FP(y_true, y_pred, rows), FN(y_true, y_pred, rows))

equalized_odds(y_true, y_pred, sensitive_attr) ==
    OddsOf([g \in Elems(Unique(sensitive_attr)) |->
               OddsEntryOf(y_true, y_pred, Rows(sensitive_attr, g))])

ConfusionEntry(y_true, y_pred, rows) ==
    [TP |-> TP(y_true, y_pred, rows), TN |-> TN(y_true, y_pred, rows),
     FP |-> FP(y_true, y_pred, rows), FN |-> FN(y_true, y_pred, rows),
     total |-> Cardinality(rows)]

confusion_matrix_by_group(y_true, y_pred, sensitive_attr) ==
    [g \in Elems(Unique(sensitive_attr)) |->
        ConfusionEntry(y_true, y_pred, Rows(sensitive_attr, g))]

FnrEntry(fn, tp) ==
    [fnr |-> Rate(fn, fn + tp), false_negatives |-> fn, true_positives |-> tp]

FnrOf(by_group) == FairnessOf(by_group, Spread(by_group, "fnr"), 10)

false_negative_rate_difference(y_true, y_pred, sensitive_attr) ==
    FnrOf([g \in Elems(Unique(sensitive_attr)) |->
              FnrEntry(FN(y_true, y_pred, Rows(sensitive_attr, g)),
                       TP(y_true, y_pred, Rows(sensitive_attr, g)))])

PpvEntry(tp, fp) ==
    [ppv |-> Rate(tp, tp + fp), precision |-> Rate(tp, tp + fp),
     true_positives |-> tp, false_positives |-> fp]

PpvOf(by_group) == FairnessOf(by_group, Spread(by_group, "ppv"), 10)

predictive_parity(y_true, y_pred, sensitive_attr) ==
    PpvOf([g \in Elems(Unique(sensitive_attr)) |->
              PpvEntry(TP(y_true, y_pred, Rows(sensitive_attr, g)),
                       FP(y_true, y_pred, Rows(sensitive_attr, g)))])

NpvEntry(tn, fn) ==
    [npv |-> Rate(tn, tn + fn), true_negatives |-> tn, false_negatives |-> fn]

NpvOf(by_group) == FairnessOf(by_group, Spread(by_group, "npv"), 10)

negative_predictive_parity(y_true, y_pred, sensitive_attr) ==
    NpvOf([g \in Elems(Unique(sensitive_attr)) |->
              NpvEntry(TN(y_true, y_pred, Rows(sensitive_attr, g)),
                       FN(y_true, y_pred, Rows(sensitive_attr, g)))])

AccuracyEntry(correct, total) ==
    [accuracy |-> Rate(correct, total), correct |-> correct, total |-> total]

\* is_fair is difference < 0.05
AccuracyOf(by_group) == FairnessOf(by_group, Spread(by_group, "accuracy"), 20)

AccuracyEntryOf(y_true, y_pred, rows) ==
    AccuracyEntry(Cardinality({i \in rows : y_true[i] = y_pred[i]}), Cardinality(rows))

accuracy_difference(y_true, y_pred, sensitive_attr) ==
    AccuracyOf([g \in Elems(Unique(sensitive_attr)) |->
                   AccuracyEntryOf(y_true, y_pred, Rows(sensitive_attr, g))])

\* fn / fp if fp > 0 else (inf if fn > 0 else 1.0); inf is stored as None
FnFpRatio(fn, fp) ==
    IF fp > 0 THEN [finite |-> TRUE, value |-> Rate(fn, fp)]
    ELSE IF fn > 0 THEN [finite |-> FALSE, value |-> 0]
    ELSE [finite |-> TRUE, value |-> RateScale]

TreatmentEntry(fn, fp) ==
    [fn_fp_ratio |-> FnFpRatio(fn, fp), false_negatives |-> fn, false_positives |-> fp]

\* max(ratios) - min(ratios) over the finite ratios if there are at least
\* two of them, else 0.0; is_fair is difference < 0.2
TreatmentOver(by_group, finite) ==
    FairnessOf(by_group,
               IF Cardinality(finite) > 1
               THEN SpreadOf({by_group[g].fn_fp_ratio.value : g \in finite})
               ELSE 0,
               5)

\* a slip: a group without a finite ratio takes part with the ratio 0.0
TreatmentOf_KeepsInfinite(by_group) == TreatmentOver(by_group, DOMAIN by_group)

TreatmentOf(by_group) ==
    TreatmentOver(by_group, {g \in DOMAIN by_group : by_group[g].fn_fp_ratio.finite})

treatment_equality(y_true, y_pred, sensitive_attr) ==
    TreatmentOf([g \in Elems(Unique(sensitive_attr)) |->
                    TreatmentEntry(FN(y_true, y_pred, Rows(sensitive_attr, g)),
                                   FP(y_true, y_pred, Rows(sensitive_attr, g)))])

\* the ECE of one group for probabilities that are 0.0 or 1.0: they fall in
\* the first (low) and the last (high) bin; a bin's error is
\* |actual rate - probability| and the ECE is the mean over the bins that
\* are not empty
EceOf(y_true, low, high) ==
    IF low # {} /\ high # {}
    THEN (Rate(Cardinality({i \in low : y_true[i] = 1}), Cardinality(low))
          + RateScale
          - Rate(Cardinality({i \in high : y_true[i] = 1}), Cardinality(high))) \div 2
    ELSE IF low # {}
    THEN Rate(Cardinality({i \in low : y_true[i] = 1}), Cardinality(low))
    ELSE IF high # {}
    THEN RateScale - Rate(Cardinality({i \in high : y_true[i] = 1}), Cardinality(high))
    ELSE 0

CalibrationEntry(y_true, y_pred_proba, rows) ==
    [expected_calibration_error |->
         EceOf(y_true, {i \in rows : y_pred_proba[i] = 0},
               {i \in rows : y_pred_proba[i] = 1}),
     n_bins |-> 10]

\* is_fair is difference < 0.05
CalibrationOf(by_group) ==
    FairnessOf(by_group, Spread(by_group, "expected_calibration_error"), 20)

calibration_by_group(y_true, y_pred_proba, sensitive_attr) ==
    CalibrationOf([g \in Elems(Unique(sensitive_attr)) |->
                      CalibrationEntry(y_true, y_pred_proba, Rows(sensitive_attr, g))])

-----------------------------------------------------------------------------
(* Pre-training functions (pretrain.py).  The entropies and divergences    *)
(* are functions of the class counts; a result carries the counts they are *)
(* computed from.  y and sensitive_attr are Series with the default index: *)
(* y[mask] aligns the mask on y's index, and raises when a row of y has no *)
(* row in the mask.                                                        *)

\* an Optional argument
Absent == [given |-> FALSE]

Some(v) == [given |-> TRUE, value |-> v]

\* the rows of y selected by mask = sensitive_attr == group
AlignedRows(y, sensitive_attr, group) ==
    {i \in 1..Len(y) : i <= Len(sensitive_attr) /\ sensitive_attr[i] = group}

\* y_group.value_counts().to_dict()
ClassCounts(y, rows) ==
    [c \in {y[i] : i \in rows} |-> Cardinality({i \in rows : y[i] = c})]

BalanceEntry(class_counts, total) ==
    [class_distribution   |-> class_counts,
     majority_class_ratio |->
         IF total > 0
         THEN Rate(MaxOf({class_counts[c] : c \in DOMAIN class_counts}), total)
         ELSE 0,
     balance_score        |->
         IF Cardinality(DOMAIN class_counts) <= 1 THEN << >> ELSE class_counts,
     total_samples        |-> total]

BalanceEntryOf(y, rows) == BalanceEntry(ClassCounts(y, rows), Cardinality(rows))

\* returns [raised, value]
class_balance(y, sensitive_attr) ==
    IF sensitive_attr # << >> /\ Len(sensitive_attr) < Len(y)
    THEN [raised |-> "IndexingError"]
    ELSE [raised |-> None,
          value  |-> [g \in Elems(Unique(sensitive_attr)) |->
                        BalanceEntryOf(y, AlignedRows(y, sensitive_attr, g))]]

ContingencyOver(y, sensitive_attr, common) ==
    [cell \in {<<sensitive_attr[i], y[i]>> : i \in common} |->
        Cardinality({i \in common : <<sensitive_attr[i], y[i]>> = cell})]

\* pd.crosstab(sensitive_attr, y): the counts over the rows both Series have
concept_balance(X, y, sensitive_attr) ==
    [contingency |->
        ContingencyOver(y, sensitive_attr, {i \in 1..Len(y) : i <= Len(sensitive_attr)})]

DistributionsOf(y, sensitive_attr, groups) ==
    [pair \in {<<groups[p[1]], groups[p[2]]>> :
                  p \in {q \in (1..Len(groups)) \X (1..Len(groups)) : q[1] < q[2]}} |->
        [dist1 |-> ClassCounts(y, AlignedRows(y, sensitive_attr, pair[1])),
         dist2 |-> ClassCounts(y, AlignedRows(y, sensitive_attr, pair[2]))]]

group_distribution_difference(y, sensitive_attr) ==
    DistributionsOf(y, sensitive_attr, Unique(sensitive_attr))

-----------------------------------------------------------------------------
(* FairnessCalculator (calculator.py).  A results dict is an object        *)
(* [id, value]: id tells two dicts with equal contents apart.  A frame X   *)
(* is the sequence of its row labels.                                      *)

FairnessCalculator_init(cache_results) ==
    [cache_results |-> cache_results, cache |-> << >>, validated |-> FALSE]

\* a slip: sensitive_attr is not compared with y_pred
validate_inputs_SkipsGroup(y_true, y_pred, y_pred_proba, sensitive_attr, X) ==
    IF y_true.given /\ y_pred.given /\ Len(y_true.value) # Len(y_pred.value)
    THEN "y_true and y_pred must have same length"
    ELSE IF y_pred_proba.given /\ y_true.given
            /\ Len(y_pred_proba.value) # Len(y_true.value)
    THEN "y_pred_proba and y_true must have same length"
    ELSE IF X.given /\ y_true.given /\ Len(X.value) # Len(y_true.value)
    THEN "X and y_true must have same length"
    ELSE None

\* the message of the ValueError _validate_inputs raises, or None
validate_inputs(y_true, y_pred, y_pred_proba, sensitive_attr, X) ==
    IF y_true.given /\ y_pred.given /\ Len(y_true.value) # Len(y_pred.value)
    THEN "y_true and y_pred must have same length"
    ELSE IF y_pred.given /\ sensitive_attr.given
            /\ Len(y_pred.value) # Len(sensitive_attr.value)
    THEN "y_pred and sensitive_attr must have same length"
    ELSE IF y_pred_proba.given /\ y_true.given
            /\ Len(y_pred_proba.value) # Len(y_true.value)
    THEN "y_pred_proba and y_true must have same length"
    ELSE IF X.given /\ y_true.given /\ Len(X.value) # Len(y_true.value)
    THEN "X and y_true must have same length"
    ELSE None

\* self._validated = True
Validated(self) == [self EXCEPT !.validated = TRUE]

\* the outcome of a call that raises
Raise(self, n, raised, message) ==
    [raised |-> raised, message |-> message, self |-> self, nalloc |-> n]

\* the outcome of a call that returns the cached object
ReturnCached(self, n, cache_key) ==
    [raised |-> None, value |-> self.cache[cache_key], self |-> self, nalloc |-> n]

\* the outcome of a call that computed results: they are stored under
\* cache_key if cache_results is set, and returned
ReturnComputed(self, n, cache_key, results) ==
    [raised |-> None,
     value  |-> results,
     self   |-> IF self.cache_results
                THEN [self EXCEPT !.cache =
                         [k \in DOMAIN @ \cup {cache_key} |->
                             IF k = cache_key THEN results ELSE @[k]]]
                ELSE self,
     nalloc |-> n + 1]

\* a slip: the cache is not consulted, every call computes
CacheHit_Never(self, cache_key) == FALSE

CacheHit(self, cache_key) == self.cache_results /\ cache_key \in DOMAIN self.cache

PretrainResultsOf(balance, X, y, sensitive_attr) ==
    IF balance.raised # None
    THEN [raised |-> balance.raised]
    ELSE [raised |-> None,
          value  |-> [class_balance   |-> balance.value,
                      concept_balance |-> concept_balance(X, y, sensitive_attr),
                      group_distribution_difference |->
                          group_distribution_difference(y, sensitive_attr)]]

\* the dict calculate_pretrain_metrics builds on a cache miss, or the
\* exception building it raises: [raised, value]
PretrainResults(X, y, sensitive_attr) ==
    PretrainResultsOf(class_balance(y, sensitive_attr), X, y, sensitive_attr)

PretrainComputed(self, n, results) ==
    IF results.raised # None
    THEN Raise(self, n, results.raised, "Unalignable boolean Series provided as indexer")
    ELSE ReturnComputed(self, n, "pretrain", [id |-> n + 1, value |-> results.value])

PretrainChecked(self, n, error, X, y, sensitive_attr) ==
    IF error # None
    THEN Raise(self, n, "ValueError", error)
    ELSE IF CacheHit(Validated(self), "pretrain")
    THEN ReturnCached(Validated(self), n, "pretrain")
    ELSE PretrainComputed(Validated(self), n, PretrainResults(X, y, sensitive_attr))

\* returns [raised, value, self, nalloc]
calculate_pretrain_metrics(self, n, X, y, sensitive_attr) ==
    PretrainChecked(self, n,
                    validate_inputs(Some(y), Absent, Absent, Some(sensitive_attr), Some(X)),
                    X, y, sensitive_attr)

WithCalibration(basic, y_true, y_pred_proba, sensitive_attr) ==
    IF y_pred_proba.given
    THEN [k \in DOMAIN basic \cup {"calibration"} |->
             IF k = "calibration"
             THEN calibration_by_group(y_true, y_pred_proba.value, sensitive_attr)
             ELSE basic[k]]
    ELSE basic

\* the dict calculate_posttrain_metrics builds on a cache miss
PosttrainResults(y_true, y_pred, sensitive_attr, y_pred_proba) ==
    WithCalibration(
        [statistical_parity  |-> statistical_parity(y_pred, sensitive_attr),
         disparate_impact    |-> disparate_impact(y_pred, sensitive_attr),
         equal_opportunity   |-> equal_opportunity(y_true, y_pred, sensitive_attr),
         equalized_odds      |-> equalized_odds(y_true, y_pred, sensitive_attr),
         confusion_matrix    |-> confusion_matrix_by_group(y_true, y_pred, sensitive_attr),
         false_negative_rate_diff |->
             false_negative_rate_difference(y_true, y_pred, sensitive_attr),
         predictive_parity   |-> predictive_parity(y_true, y_pred, sensitive_attr),
         negative_predictive_parity |->
             negative_predictive_parity(y_true, y_pred, sensitive_attr),
         accuracy_difference |-> accuracy_difference(y_true, y_pred, sensitive_attr),
         treatment_equality  |-> treatment_equality(y_true, y_pred, sensitive_attr)],
        y_true, y_pred_proba, sensitive_attr)

PosttrainChecked(self, n, error, y_true, y_pred, sensitive_attr, y_pred_proba) ==
    IF error # None
    THEN Raise(self, n, "ValueError", error)
    ELSE IF CacheHit(Validated(self), "posttrain")
    THEN ReturnCached(Validated(self), n, "posttrain")
    ELSE ReturnComputed(Validated(self), n, "posttrain",
                        [id    |-> n + 1,
                         value |-> PosttrainResults(y_true, y_pred, sensitive_attr,
                                                    y_pred_proba)])

\* returns [raised, value, self, nalloc]
calculate_posttrain_metrics(self, n, y_true, y_pred, sensitive_attr, y_pred_proba) ==
    PosttrainChecked(self, n,
                     validate_inputs(Some(y_true), Some(y_pred), y_pred_proba,
                                     Some(sensitive_attr), Absent),
                     y_true, y_pred, sensitive_attr, y_pred_proba)

\* a slip: the equalized odds check is left out of the count
Violations_ThreeChecks(posttrain) ==
    (IF ~posttrain.statistical_parity.is_fair THEN <<"statistical_parity">> ELSE << >>)
    \o (IF ~posttrain.disparate_impact.passes_80_rule THEN <<"disparate_impact">> ELSE << >>)
    \o (IF ~posttrain.equal_opportunity.is_fair THEN <<"equal_opportunity">> ELSE << >>)

\* the names of the basic checks that fail, in the order they are examined
Violations(posttrain) ==
    (IF ~posttrain.statistical_parity.is_fair THEN <<"statistical_parity">> ELSE << >>)
    \o (IF ~posttrain.disparate_impact.passes_80_rule THEN <<"disparate_impact">> ELSE << >>)
    \o (IF ~posttrain.equal_opportunity.is_fair THEN <<"equal_opportunity">> ELSE << >>)
    \o (IF ~posttrain.equalized_odds.is_fair THEN <<"equalized_odds">> ELSE << >>)

SummaryOf(posttrain, violations, total_checks) ==
    [overall_fairness_score  |-> ((total_checks - Len(violations)) * 100) \div total_checks,
     fairness_violations     |-> violations,
     n_violations            |-> Len(violations),
     disparate_impact_ratio  |-> posttrain.disparate_impact.ratio,
     statistical_parity_diff |-> posttrain.statistical_parity.difference,
     passes_basic_fairness   |-> Len(violations) = 0]

\* posttrain is the value of results["posttrain"]
calculate_summary(posttrain) == SummaryOf(posttrain, Violations(posttrain), 4)

\* pre and post are the outcomes of the two calls calculate_all makes; the
\* outcome carries, as pre, the object its calculate_pretrain_metrics call
\* returned
AllWithPost(pre, post, X) ==
    IF post.raised # None
    THEN [raised |-> post.raised, message |-> post.message, self |-> post.self,
          nalloc |-> post.nalloc, pre |-> IF X.given THEN Some(pre.value) ELSE Absent]
    ELSE [raised |-> None,
          value  |-> [pretrain  |-> IF X.given THEN Some(pre.value) ELSE Absent,
                      posttrain |-> post.value,
                      summary   |-> calculate_summary(post.value.value)],
          self   |-> post.self,
          nalloc |-> post.nalloc,
          pre    |-> IF X.given THEN Some(pre.value) ELSE Absent]

AllWithPre(pre, y_true, y_pred, sensitive_attr, X, y_pred_proba) ==
    IF pre.raised # None
    THEN [raised |-> pre.raised, message |-> pre.message, self |-> pre.self,
          nalloc |-> pre.nalloc, pre |-> Absent]
    ELSE AllWithPost(pre,
                     calculate_posttrain_metrics(pre.self, pre.nalloc, y_true, y_pred,
                                                 sensitive_attr, y_pred_proba),
                     X)

AllChecked(self, n, error, y_true, y_pred, sensitive_attr, X, y_pred_proba) ==
    IF error # None
    THEN [raised |-> "ValueError", message |-> error, self |-> self, nalloc |-> n,
          pre |-> Absent]
    ELSE AllWithPre(IF X.given
                    THEN calculate_pretrain_metrics(Validated(self), n, X.value, y_true,
                                                    sensitive_attr)
                    ELSE [raised |-> None, self |-> Validated(self), nalloc |-> n],
                    y_true, y_pred, sensitive_attr, X, y_pred_proba)

\* returns [raised, value, self, nalloc, pre]
calculate_all(self, n, y_true, y_pred, sensitive_attr, X, y_pred_proba) ==
    AllChecked(self, n,
               validate_inputs(Some(y_true), Some(y_pred), y_pred_proba,
                               Some(sensitive_attr), X),
               y_true, y_pred, sensitive_attr, X, y_pred_proba)

clear_cache(self) == [self EXCEPT !.cache = << >>]

\* the recommendations, one name per failed check, or the single
\* "no_violations" entry; posttrain is the value of results["posttrain"]
RecommendationsOf(violations) ==
    IF violations = << >> THEN <<"no_violations">> ELSE violations

\* a slip: with nothing cached the empty result set is examined
get_recommendations_Defaults(self, results) ==
    IF ~results.given /\ "posttrain" \notin DOMAIN self.cache
    THEN [raised |-> None, value |-> <<"no_violations">>]
    ELSE IF ~results.given
    THEN [raised |-> None, value |-> RecommendationsOf(Violations(self.cache["posttrain"].value))]
    ELSE [raised |-> None, value |-> RecommendationsOf(Violations(results.value.posttrain.value))]

\* get_recommendations: [raised, value]; results is the Optional argument
get_recommendations(self, results) ==
    IF ~results.given /\ "posttrain" \notin DOMAIN self.cache
    THEN [raised |-> "ValueError", message |-> "No cached results. Call calculate_all() first."]
    ELSE IF ~results.given
    THEN [raised |-> None, value |-> RecommendationsOf(Violations(self.cache["posttrain"].value))]
    ELSE [raised |-> None, value |-> RecommendationsOf(Violations(results.value.posttrain.value))]

-----------------------------------------------------------------------------
(* ThresholdAnalyzer (evaluators/threshold.py).  A probability or a        *)
(* threshold p stands for the float p / 2.  results_ is the table analyze  *)
(* builds, a sequence of rows, each a function from column name to value.  *)
(* The arithmetic of the combined score is left out: the optimum is one of *)
(* the rows of the table.                                                  *)

DefaultFairnessMetrics ==
    {"statistical_parity", "disparate_impact", "equal_opportunity", "equalized_odds"}

DefaultPerformanceMetrics == {"accuracy", "precision", "recall", "f1_score"}

\* `fairness_metrics or [...]`: an empty list gets the default too
ThresholdAnalyzer_init(thresholds, fairness_metrics, performance_metrics) ==
    [thresholds          |-> thresholds,
     fairness_metrics    |-> IF fairness_metrics = {} THEN DefaultFairnessMetrics
                             ELSE fairness_metrics,
     performance_metrics |-> IF performance_metrics = {} THEN DefaultPerformanceMetrics
                             ELSE performance_metrics,
     results_            |-> Absent,
     optimal_threshold_  |-> Absent]

\* (y_pred_proba >= threshold).astype(int)
PredictAt(y_pred_proba, threshold) ==
    [i \in 1..Len(y_pred_proba) |-> IF y_pred_proba[i] >= threshold THEN 1 ELSE 0]

\* 2tp / (2tp + fp + fn), 0.0 on a zero division
F1Score(tp, fp, fn) == IF 2 * tp + fp + fn > 0 THEN <<2 * tp, 2 * tp + fp + fn>> ELSE <<0, 1>>

PerformanceColumns(wanted, tp, tn, fp, fn) ==
    [c \in wanted \cap DefaultPerformanceMetrics |->
        CASE c = "accuracy"  -> Rate(tp + tn, tp + tn + fp + fn)
          [] c = "precision" -> Rate(tp, tp + fp)
          [] c = "recall"    -> Rate(tp, tp + fn)
          [] c = "f1_score"  -> F1Score(tp, fp, fn)]

ColumnsOf(name) ==
    CASE name = "statistical_parity" -> {"statistical_parity_diff", "statistical_parity_ratio"}
      [] name = "disparate_impact"   -> {"disparate_impact_ratio"}
      [] name = "equal_opportunity"  -> {"equal_opportunity_diff"}
      [] name = "equalized_odds"     -> {"equalized_odds_tpr_diff", "equalized_odds_fpr_diff"}
      [] OTHER                       -> {}

FairnessColumns(wanted, sp_result, di_result, eo_result, eq_result) ==
    [c \in UNION {ColumnsOf(name) : name \in wanted} |->
        CASE c = "statistical_parity_diff"  -> sp_result.difference
          [] c = "statistical_parity_ratio" -> sp_result.ratio
          [] c = "disparate_impact_ratio"   -> di_result.ratio
          [] c = "equal_opportunity_diff"   -> eo_result.difference
          [] c = "equalized_odds_tpr_diff"  -> eq_result.tpr_difference
          [] c = "equalized_odds_fpr_diff"  -> eq_result.fpr_difference]

\* the metrics dict of one threshold
MetricsRow(self, threshold, y_true, y_pred, sensitive_attr) ==
    [c \in {"threshold"} |-> threshold]
    @@ PerformanceColumns(self.performance_metrics,
                          TP(y_true, y_pred, DOMAIN y_true), TN(y_true, y_pred, DOMAIN y_true),
                          FP(y_true, y_pred, DOMAIN y_true), FN(y_true, y_pred, DOMAIN y_true))
    @@ FairnessColumns(self.fairness_metrics,
                       statistical_parity(y_pred, sensitive_attr),
                       disparate_impact(y_pred, sensitive_attr),
                       equal_opportunity(y_true, y_pred, sensitive_attr),
                       equalized_odds(y_true, y_pred, sensitive_attr))

\* analyze: [self, value]; the inputs are not empty and have one length
analyze(self, y_true, y_pred_proba, sensitive_attr) ==
    LET results == [k \in 1..Len(self.thresholds) |->
                       MetricsRow(self, self.thresholds[k], y_true,
                                  PredictAt(y_pred_proba, self.thresholds[k]), sensitive_attr)]
    IN [self |-> [self EXCEPT !.results_ = Some(results)], value |-> results]

\* df.columns; a table without rows has no columns
Columns(df) == IF df = << >> THEN {} ELSE DOMAIN df[1]

\* the columns whose values are ratios of two numbers
RatioColumns == {"statistical_parity_ratio", "disparate_impact_ratio", "f1_score"}

\* df[column].max() is 0: the normalised column is 0/0 in every row
MaxIsZero(df, column) ==
    \A k \in DOMAIN df :
        IF column \in RatioColumns THEN df[k][column][1] = 0 ELSE df[k][column] = 0

\* find_optimal_threshold without a fairness constraint: [raised, self, value].
\* optimal_idx is the row idxmax picks; on_nan is what idxmax and df.loc do
\* when every combined score is NaN
find_optimal_threshold(self, fairness_metric, performance_metric, fairness_weight, optimal_idx, on_nan) ==
    IF ~self.results_.given
    THEN [raised |-> "ValueError", self |-> self,
          message |-> "Must call analyze() before finding optimal threshold"]
    ELSE IF performance_metric \notin Columns(self.results_.value)
    THEN [raised |-> "ValueError", self |-> self, message |-> "Performance metric not found"]
    ELSE IF fairness_metric \notin Columns(self.results_.value)
    THEN [raised |-> "ValueError", self |-> self, message |-> "Fairness metric not found"]
    ELSE IF \/ MaxIsZero(self.results_.value, performance_metric)
            \/ MaxIsZero(self.results_.value, fairness_metric)
    THEN [raised |-> on_nan, self |-> self, message |-> "all scores are NaN"]
    ELSE [raised |-> None,
          self   |-> [self EXCEPT !.optimal_threshold_ =
                         Some(self.results_.value[optimal_idx].threshold)],
          value  |-> [threshold          |-> self.results_.value[optimal_idx].threshold,
                      fairness_metric    |-> fairness_metric,
                      performance_metric |-> performance_metric,
                      fairness_weight    |-> fairness_weight,
                      all_metrics        |-> self.results_.value[optimal_idx]]]

ColumnOf(df, column) == [k \in DOMAIN df |-> df[k][column]]

\* plot_tradeoff_curve: [raised, value]
plot_tradeoff_curve(self, fairness_metric, performance_metric) ==
    IF ~self.results_.given
    THEN [raised |-> "ValueError", message |-> "Must call analyze() before plotting"]
    ELSE IF {fairness_metric, performance_metric, "threshold"}
            \subseteq Columns(self.results_.value)
    THEN [raised |-> None,
          value  |-> [x          |-> ColumnOf(self.results_.value, fairness_metric),
                      y          |-> ColumnOf(self.results_.value, performance_metric),
                      thresholds |-> ColumnOf(self.results_.value, "threshold"),
                      x_label    |-> fairness_metric,
                      y_label    |-> performance_metric]]
    ELSE [raised |-> "KeyError", message |-> "column"]

\* the fairness weight of a use case, in tenths; 0 for an unknown use case
WeightOf(use_case) ==
    CASE use_case = "balanced"             -> 5
      [] use_case = "fairness_priority"    -> 7
      [] use_case = "performance_priority" -> 3
      [] OTHER                             -> 0

Recommended(found, use_case) ==
    IF found.raised # None THEN found
    ELSE [found EXCEPT !.value = [threshold   |-> found.value.threshold,
                                  all_metrics |-> found.value.all_metrics,
                                  use_case    |-> use_case]]

\* get_threshold_recommendation: [raised, self, value]
get_threshold_recommendation(self, use_case, optimal_idx, on_nan) ==
    IF ~self.results_.given
    THEN [raised |-> "ValueError", self |-> self,
          message |-> "Must call analyze() before getting recommendation"]
    ELSE IF WeightOf(use_case) = 0
    THEN [raised |-> "ValueError", self |-> self, message |-> "Unknown use case"]
    ELSE Recommended(find_optimal_threshold(self, "disparate_impact_ratio", "f1_score",
                                            WeightOf(use_case), optimal_idx, on_nan),
                     use_case)

-----------------------------------------------------------------------------
(* States of the objects a specification does not exercise *)

NoResult == [set |-> FALSE]

IdleDetector == FairnessDriftDetector_init(<< >>, "threshold", 0).self

IdleMonitor == MetricsDriftMonitor_init(<< >>, 0)

IdleAlerting == FairnessAlerting_init(TRUE, "low", 300)

IdleCalc == [cache_results |-> TRUE, cache |-> << >>, validated |-> FALSE]

IdleAnalyzer == ThresholdAnalyzer_init(<< >>, {}, {})

NoFirst == [kind \in {"pretrain", "posttrain"} |-> Absent]

Started == [op |-> "init"]

\* no file has been written
NoFiles == << >>

\* the report of the specifications that have none
IdleReport == [_html |-> Absent]

\* the detector was handed baseline b and, before it, nothing
Handed(b) == [baseline |-> b, replaced |-> Absent]

-----------------------------------------------------------------------------
(* The drift detector on its own: construct, detect, update_baseline,      *)
(* get_drift_summary                                                       *)

\* baselines the detector is constructed with
InitBaselines ==
    {<< >>,
     [m \in {"sp"} |-> 1],
     [m \in {"eo"} |-> MaxVal],
     [m \in MetricNames |-> 1],
     [m \in MetricNames |-> IF m = "sp" THEN MaxVal ELSE 0],
     [m \in MetricNames |-> IF m = "sp" THEN 2 ELSE MaxVal - 1],
     [m \in BaselineNames |-> 1]}

\* baselines the caller passes to update_baseline
BaselineUpdates ==
    {<< >>, [m \in {"sp"} |-> 0], [m \in MetricNames |-> MaxVal]}

InitDetect ==
    /\ \E b \in InitBaselines, method \in MethodInputs, t \in Thresholds :
          LET c == FairnessDriftDetector_init(b, method, t)
          IN c.raised = None /\ detector = c.self /\ handed = Handed(b)
    /\ held = NoResult
    /\ monitor = IdleMonitor
    /\ nobs = 0
    /\ inserted = << >>
    /\ alerting = IdleAlerting
    /\ sends = << >>
    /\ calc = IdleCalc
    /\ nalloc = 0
    /\ firstret = NoFirst
    /\ analyzer = IdleAnalyzer
    /\ analyzed = FALSE
    /\ now = 0
    /\ dispatched = Absent
    /\ report = IdleReport
    /\ files = NoFiles
    /\ last = Started

Detect(new_metrics) ==
    LET r == detect(detector, new_metrics)
    IN /\ last' = [op |-> "detect", self |-> detector, arg |-> new_metrics,
                   raised |-> r.raised, ret |-> r.value]
       /\ held' = IF r.raised = None THEN [set |-> TRUE, value |-> r.value] ELSE held
       /\ UNCHANGED <<detector, monitor, nobs, inserted, alerting, sends, calc, nalloc, firstret, analyzer, analyzed, handed, now, dispatched, report, files>>

UpdateBaseline(new_baseline) ==
    /\ detector' = update_baseline(detector, new_baseline)
    /\ handed' = [baseline |-> new_baseline, replaced |-> Some(handed.baseline)]
    /\ last' = [op |-> "update_baseline", arg |-> new_baseline, raised |-> None]
    /\ UNCHANGED <<held, monitor, nobs, inserted, alerting, sends, calc, nalloc, firstret,
                   analyzer, analyzed, now, dispatched, report, files>>

GetDriftSummary ==
    /\ held.set
    /\ LET r == get_drift_summary(detector, held.value)
       IN last' = [op |-> "get_drift_summary", self |-> detector, arg |-> held.value,
                   raised |-> r.raised, ret |-> r.value]
    /\ UNCHANGED <<detector, held, monitor, nobs, inserted, alerting, sends, calc, nalloc, firstret, analyzer, analyzed, handed, now, dispatched, report, files>>

NextDetect ==
    \/ \E new_metrics \in MetricMaps : Detect(new_metrics)
    \/ \E b \in BaselineUpdates : UpdateBaseline(b)
    \/ GetDriftSummary

SpecDetect == InitDetect /\ [][NextDetect]_vars

-----------------------------------------------------------------------------
(* The drift monitor: construct, add_observation, check_drift,             *)
(* get_drift_trend, and update_baseline on the detector it owns            *)

\* baselines a monitor is constructed with, and later updated to
MonitorBaselines ==
    {[m \in MetricNames |-> 1], [m \in {"sp"} |-> MaxVal]}

\* the metrics the caller observes
ObsChoices ==
    {<< >>,
     [m \in {"sp"} |-> 1],
     [m \in MetricNames |-> IF m = "sp" THEN MaxVal ELSE 0]}

WindowSizes == 0..MaxWindow

InitMonitor ==
    /\ \E b \in MonitorBaselines, w \in WindowSizes,
          method \in MethodInputs, t \in Thresholds :
          LET c == FairnessDriftDetector_init(b, method, t)
          IN /\ c.raised = None
             /\ detector = c.self
             /\ handed = Handed(b)
             /\ monitor = MetricsDriftMonitor_init(b, w)
    /\ held = NoResult
    /\ nobs = 0
    /\ inserted = << >>
    /\ alerting = IdleAlerting
    /\ sends = << >>
    /\ calc = IdleCalc
    /\ nalloc = 0
    /\ firstret = NoFirst
    /\ analyzer = IdleAnalyzer
    /\ analyzed = FALSE
    /\ now = 0
    /\ dispatched = Absent
    /\ report = IdleReport
    /\ files = NoFiles
    /\ last = Started

\* the caller stamps an observation with the number of the call
AddObservation(metrics, cap) ==
    /\ nobs < cap
    /\ LET ts == nobs + 1
           r == add_observation(monitor, detector, metrics, ts)
       IN /\ monitor' = r.self
          /\ last' = [op |-> "add_observation", arg |-> metrics, timestamp |-> ts,
                      before |-> monitor.history, raised |-> r.raised, ret |-> r.value]
          /\ inserted' = Append(inserted, [timestamp |-> ts, metrics |-> metrics])
    /\ nobs' = nobs + 1
    /\ UNCHANGED <<detector, held, alerting, sends, calc, nalloc, firstret, analyzer, analyzed, handed, now, dispatched, report, files>>

CheckDrift ==
    /\ last' = [op |-> "check_drift", raised |-> None, ret |-> check_drift(monitor)]
    /\ UNCHANGED <<detector, held, monitor, nobs, inserted, alerting, sends, calc, nalloc, firstret, analyzer, analyzed, handed, now, dispatched, report, files>>

GetDriftTrend ==
    /\ last' = [op |-> "get_drift_trend", raised |-> None, ret |-> get_drift_trend(monitor)]
    /\ UNCHANGED <<detector, held, monitor, nobs, inserted, alerting, sends, calc, nalloc, firstret, analyzer, analyzed, handed, now, dispatched, report, files>>

NextMonitor ==
    \/ \E metrics \in ObsChoices : AddObservation(metrics, MaxObs)
    \/ CheckDrift
    \/ GetDriftTrend
    \/ \E b \in MonitorBaselines : UpdateBaseline(b)

SpecMonitor == InitMonitor /\ [][NextMonitor]_vars

-----------------------------------------------------------------------------
(* The drift monitor over a window of the default size                     *)

DefaultWindowSize == 10

MaxTrendObs == 11

\* one observation that drifts from the baseline below and one that does not
TrendChoices == {[m \in {"sp"} |-> 1], [m \in {"sp"} |-> MaxVal]}

InitWindow ==
    /\ \E w \in {MaxWindow, DefaultWindowSize} :
          LET b == [m \in {"sp"} |-> 1]
              c == FairnessDriftDetector_init(b, "threshold", 1)
          IN /\ c.raised = None
             /\ detector = c.self
             /\ handed = Handed(b)
             /\ monitor = MetricsDriftMonitor_init(b, w)
    /\ held = NoResult
    /\ nobs = 0
    /\ inserted = << >>
    /\ alerting = IdleAlerting
    /\ sends = << >>
    /\ calc = IdleCalc
    /\ nalloc = 0
    /\ firstret = NoFirst
    /\ analyzer = IdleAnalyzer
    /\ analyzed = FALSE
    /\ now = 0
    /\ dispatched = Absent
    /\ report = IdleReport
    /\ files = NoFiles
    /\ last = Started

NextWindow ==
    \/ \E metrics \in TrendChoices : AddObservation(metrics, MaxTrendObs)
    \/ CheckDrift
    \/ GetDriftTrend

SpecWindow == InitWindow /\ [][NextWindow]_vars

-----------------------------------------------------------------------------
(* The alerting dispatcher with a detector and the results it produced     *)

ChannelNames == {"console", "email"}

SeverityNames == {"low", "medium", "high"}

AlertBaselines == {[m \in BaselineNames |-> 0], [m \in MetricNames |-> 0]}

\* no drift, one metric drifted, two metrics drifted
AlertObs ==
    {[m \in {"sp"} |-> 0], [m \in {"sp"} |-> MaxVal], [m \in MetricNames |-> MaxVal]}

InitAlert ==
    /\ \E b \in AlertBaselines, t \in Thresholds :
          LET c == FairnessDriftDetector_init(b, "threshold", t)
          IN c.raised = None /\ detector = c.self /\ handed = Handed(b)
    /\ \E enabled \in BOOLEAN, sev \in SeverityNames :
          alerting = FairnessAlerting_init(enabled, sev, 300)
    /\ held = NoResult
    /\ monitor = IdleMonitor
    /\ nobs = 0
    /\ inserted = << >>
    /\ sends = << >>
    /\ calc = IdleCalc
    /\ nalloc = 0
    /\ firstret = NoFirst
    /\ analyzer = IdleAnalyzer
    /\ analyzed = FALSE
    /\ now = 0
    /\ dispatched = Absent
    /\ report = IdleReport
    /\ files = NoFiles
    /\ last = Started

AddChannel(name, channel) ==
    /\ alerting' = add_channel(alerting, name, channel)
    /\ last' = [op |-> "add_channel", raised |-> None]
    /\ UNCHANGED <<detector, held, monitor, nobs, inserted, sends, calc, nalloc, firstret, analyzer, analyzed, handed, now, dispatched, report, files>>

RemoveChannel(name) ==
    /\ alerting' = remove_channel(alerting, name)
    /\ last' = [op |-> "remove_channel", raised |-> None]
    /\ UNCHANGED <<detector, held, monitor, nobs, inserted, sends, calc, nalloc, firstret, analyzer, analyzed, handed, now, dispatched, report, files>>

\* the call is made at clock reading now
SendDriftAlert ==
    /\ held.set
    /\ \E r \in {send_drift_alert(alerting, held.value, detector, None)} :
          /\ last' = [op |-> "send_drift_alert", arg |-> held.value, raised |-> r.raised,
                      ret |-> r.value, dispatched |-> r.dispatched,
                      at |-> now, since |-> dispatched]
          /\ sends' = r.sent
          /\ dispatched' = IF r.sent # << >> THEN Some(now) ELSE dispatched
    /\ UNCHANGED <<detector, held, monitor, nobs, inserted, alerting, calc, nalloc, firstret,
                   analyzer, analyzed, handed, now, report, files>>

NextAlert ==
    \/ \E name \in ChannelNames, channel \in ChannelKinds : AddChannel(name, channel)
    \/ \E name \in ChannelNames : RemoveChannel(name)
    \/ \E new_metrics \in AlertObs : Detect(new_metrics)
    \/ UpdateBaseline(<< >>)
    \/ SendDriftAlert

SpecAlert == InitAlert /\ [][NextAlert]_vars

-----------------------------------------------------------------------------
(* Alerting over time: one detector, an alerting dispatcher with the       *)
(* default rate limit or none, and a clock that counts seconds             *)

DefaultRateLimit == 300

MaxClock == 2

RateLimits == {0, DefaultRateLimit}

InitRate ==
    /\ \E c \in {FairnessDriftDetector_init([m \in {"sp"} |-> 0], "threshold", 0)} :
          c.raised = None /\ detector = c.self /\ handed = Handed(c.self.baseline_metrics)
    /\ \E enabled \in BOOLEAN, rate_limit_seconds \in RateLimits :
          alerting = FairnessAlerting_init(enabled, "low", rate_limit_seconds)
    /\ held = NoResult
    /\ monitor = IdleMonitor
    /\ nobs = 0
    /\ inserted = << >>
    /\ sends = << >>
    /\ calc = IdleCalc
    /\ nalloc = 0
    /\ firstret = NoFirst
    /\ analyzer = IdleAnalyzer
    /\ analyzed = FALSE
    /\ now = 0
    /\ dispatched = Absent
    /\ report = IdleReport
    /\ files = NoFiles
    /\ last = Started

\* a second passes
Tick ==
    /\ now < MaxClock
    /\ now' = now + 1
    /\ last' = [op |-> "tick", raised |-> None]
    /\ UNCHANGED <<detector, held, monitor, nobs, inserted, alerting, sends, calc, nalloc,
                   firstret, analyzer, analyzed, handed, dispatched, report, files>>

NextRate ==
    \/ \E name \in ChannelNames, channel \in ChannelKinds : AddChannel(name, channel)
    \/ \E name \in ChannelNames : RemoveChannel(name)
    \/ \E new_metrics \in AlertObs : Detect(new_metrics)
    \/ SendDriftAlert
    \/ Tick

SpecRate == InitRate /\ [][NextRate]_vars

-----------------------------------------------------------------------------
(* The fairness calculator: construct, calculate_pretrain_metrics,         *)
(* calculate_posttrain_metrics, calculate_all, clear_cache.  The arrays    *)
(* passed have MaxLen rows, or one row less for the arguments in short.    *)

DataSets == 1..2

LenOf(short, field) == IF field \in short THEN MaxLen - 1 ELSE MaxLen

LabelsOf(d, n) == [i \in 1..n |-> IF d = 1 THEN 1 ELSE i % 2]

PredictionsOf(d, n) == [i \in 1..n |-> IF d = 1 THEN i % 2 ELSE 1]

GroupsOf(n) == [i \in 1..n |-> IF i % 2 = 1 THEN "A" ELSE "B"]

FrameOf(n) == [i \in 1..n |-> i]

\* the arguments that are shorter than the others in a call
PretrainShort == {{}, {"X"}, {"y"}, {"sensitive_attr"}, {"X", "y"}}

PosttrainShort == {{}, {"y_true"}, {"y_pred"}, {"sensitive_attr"}, {"y_pred_proba"}}

AllShort == PosttrainShort \cup {{"X"}}

\* the object the first successful call of a kind returned
FirstAfter(before, kind, made, outcome) ==
    IF made /\ ~before[kind].given /\ outcome.raised = None
    THEN [before EXCEPT ![kind] = Some(outcome.value)]
    ELSE before

InitCalc ==
    /\ detector = IdleDetector
    /\ held = NoResult
    /\ monitor = IdleMonitor
    /\ nobs = 0
    /\ inserted = << >>
    /\ alerting = IdleAlerting
    /\ sends = << >>
    /\ \E cache_results \in BOOLEAN : calc = FairnessCalculator_init(cache_results)
    /\ nalloc = 0
    /\ firstret = NoFirst
    /\ analyzer = IdleAnalyzer
    /\ analyzed = FALSE
    /\ handed = Handed(<< >>)
    /\ now = 0
    /\ dispatched = Absent
    /\ report = IdleReport
    /\ files = NoFiles
    /\ last = Started

CalculatePretrain(X, y, sensitive_attr) ==
    /\ nalloc < MaxCalls
    /\ \E r \in {calculate_pretrain_metrics(calc, nalloc, X, y, sensitive_attr)} :
       /\ calc' = r.self
       /\ nalloc' = r.nalloc
       /\ firstret' = FirstAfter(firstret, "pretrain", TRUE, r)
       /\ last' = [op |-> "calculate_pretrain_metrics", X |-> X, y |-> y,
                   sensitive_attr |-> sensitive_attr,
                   before |-> [self |-> calc, firstret |-> firstret, nalloc |-> nalloc],
                   raised |-> r.raised,
                   ret |-> IF r.raised = None THEN Some(r.value) ELSE Absent]
       /\ UNCHANGED <<detector, held, monitor, nobs, inserted, alerting, sends, analyzer, analyzed, handed, now, dispatched, report, files>>

CalculatePosttrain(y_true, y_pred, sensitive_attr, y_pred_proba) ==
    /\ nalloc < MaxCalls
    /\ \E r \in {calculate_posttrain_metrics(calc, nalloc, y_true, y_pred, sensitive_attr,
                                            y_pred_proba)} :
       /\ calc' = r.self
       /\ nalloc' = r.nalloc
       /\ firstret' = FirstAfter(firstret, "posttrain", TRUE, r)
       /\ last' = [op |-> "calculate_posttrain_metrics", y_true |-> y_true,
                   y_pred |-> y_pred, sensitive_attr |-> sensitive_attr,
                   y_pred_proba |-> y_pred_proba,
                   before |-> [self |-> calc, firstret |-> firstret, nalloc |-> nalloc],
                   raised |-> r.raised,
                   ret |-> IF r.raised = None THEN Some(r.value) ELSE Absent]
       /\ UNCHANGED <<detector, held, monitor, nobs, inserted, alerting, sends, analyzer, analyzed, handed, now, dispatched, report, files>>

CalculateAll(y_true, y_pred, sensitive_attr, X, y_pred_proba) ==
    /\ nalloc < MaxCalls
    /\ \E r \in {calculate_all(calc, nalloc, y_true, y_pred, sensitive_attr, X,
                              y_pred_proba)} :
       /\ calc' = r.self
       /\ nalloc' = r.nalloc
       /\ firstret' = FirstAfter(FirstAfter(firstret, "pretrain", r.pre.given,
                                            [raised |-> None, value |-> r.pre.value]),
                                 "posttrain", r.raised = None,
                                 [raised |-> None, value |-> r.value.posttrain])
       /\ last' = [op |-> "calculate_all", y_true |-> y_true,
                   y_pred |-> y_pred, sensitive_attr |-> sensitive_attr, X |-> X,
                   y_pred_proba |-> y_pred_proba,
                   before |-> [self |-> calc, firstret |-> firstret, nalloc |-> nalloc],
                   raised |-> r.raised,
                   ret |-> IF r.raised = None THEN Some(r.value) ELSE Absent]
       /\ UNCHANGED <<detector, held, monitor, nobs, inserted, alerting, sends, analyzer, analyzed, handed, now, dispatched, report, files>>

ClearCache ==
    /\ calc' = clear_cache(calc)
    /\ firstret' = NoFirst
    /\ last' = [op |-> "clear_cache"]
    /\ UNCHANGED <<detector, held, monitor, nobs, inserted, alerting, sends, nalloc, analyzer, analyzed, handed, now, dispatched, report, files>>

NextCalc ==
    \/ \E d \in DataSets, short \in PretrainShort :
          CalculatePretrain(FrameOf(LenOf(short, "X")),
                            LabelsOf(d, LenOf(short, "y")),
                            GroupsOf(LenOf(short, "sensitive_attr")))
    \/ \E d \in DataSets, short \in PosttrainShort, proba \in BOOLEAN :
          /\ "y_pred_proba" \in short => proba
          /\ CalculatePosttrain(LabelsOf(d, LenOf(short, "y_true")),
                                PredictionsOf(d, LenOf(short, "y_pred")),
                                GroupsOf(LenOf(short, "sensitive_attr")),
                                IF proba
                                THEN Some(PredictionsOf(d, LenOf(short, "y_pred_proba")))
                                ELSE Absent)
    \/ \E d \in DataSets, short \in AllShort, frame \in BOOLEAN, proba \in BOOLEAN :
          /\ "y_pred_proba" \in short => proba
          /\ "X" \in short => frame
          /\ CalculateAll(LabelsOf(d, LenOf(short, "y_true")),
                          PredictionsOf(d, LenOf(short, "y_pred")),
                          GroupsOf(LenOf(short, "sensitive_attr")),
                          IF frame THEN Some(FrameOf(LenOf(short, "X"))) ELSE Absent,
                          IF proba
                          THEN Some(PredictionsOf(d, LenOf(short, "y_pred_proba")))
                          ELSE Absent)
    \/ ClearCache

SpecCalc == InitCalc /\ [][NextCalc]_vars

-----------------------------------------------------------------------------
(* calculate_all on a new calculator, over every batch of at most MaxBatch *)
(* rows with binary labels, binary predictions and two groups              *)

GroupValues == {"A", "B"}

SeqsOver(S, n) == [1..n -> S]

Batches ==
    UNION {SeqsOver({0, 1}, n) \X SeqsOver({0, 1}, n) \X SeqsOver(GroupValues, n) :
              n \in 0..MaxBatch}

\* y_pred_proba, when passed, holds the predictions as probabilities 0.0 and
\* 1.0; X is passed with the empty batch only
NextMetrics ==
    /\ nalloc = 0
    /\ \E batch \in Batches, proba \in BOOLEAN :
          \E frame \in (IF batch[1] = << >> THEN BOOLEAN ELSE {FALSE}) :
             CalculateAll(batch[1], batch[2], batch[3],
                          IF frame THEN Some(FrameOf(0)) ELSE Absent,
                          IF proba THEN Some(batch[2]) ELSE Absent)

SpecMetrics == InitCalc /\ [][NextMetrics]_vars

-----------------------------------------------------------------------------
(* The queries that need an earlier computation: get_recommendations on a  *)
(* calculator, and find_optimal_threshold, plot_tradeoff_curve and         *)
(* get_threshold_recommendation on a ThresholdAnalyzer                     *)

ThresholdChoices == {<<1>>, <<1, 2>>}

FairnessChoices == {{}, {"equal_opportunity"}}

PerformanceChoices == {{}, {"accuracy"}}

\* probabilities 0.0, 0.5 and 1.0
ScoresOf(d, n) == [i \in 1..n |-> (i + d) % 3]

FairnessColumnNames == {"disparate_impact_ratio", "equal_opportunity_diff"}

PerformanceColumnNames == {"f1_score", "accuracy"}

UseCases == {"balanced", "fairness_priority", "performance_priority", "aggressive"}

NanOutcomes == {"KeyError", "ValueError"}

InitQueries ==
    /\ detector = IdleDetector
    /\ held = NoResult
    /\ monitor = IdleMonitor
    /\ nobs = 0
    /\ inserted = << >>
    /\ alerting = IdleAlerting
    /\ sends = << >>
    /\ \E cache_results \in BOOLEAN : calc = FairnessCalculator_init(cache_results)
    /\ nalloc = 0
    /\ firstret = NoFirst
    /\ \E thresholds \in ThresholdChoices, fairness_metrics \in FairnessChoices,
          performance_metrics \in PerformanceChoices :
          analyzer = ThresholdAnalyzer_init(thresholds, fairness_metrics, performance_metrics)
    /\ analyzed = FALSE
    /\ handed = Handed(<< >>)
    /\ now = 0
    /\ dispatched = Absent
    /\ report = IdleReport
    /\ files = NoFiles
    /\ last = Started

\* results is passed when the caller holds the object of an earlier call
GetRecommendations(pass) ==
    /\ pass => firstret["posttrain"].given
    /\ \E results \in {IF pass THEN Some([posttrain |-> firstret["posttrain"].value])
                       ELSE Absent} :
       \E r \in {get_recommendations(calc, results)} :
          last' = [op |-> "get_recommendations", results |-> results,
                   before |-> [self |-> calc], raised |-> r.raised,
                   ret |-> IF r.raised = None THEN Some(r.value) ELSE Absent]
    /\ UNCHANGED <<detector, held, monitor, nobs, inserted, alerting, sends, calc, nalloc,
                   firstret, analyzer, analyzed, handed, now, dispatched, report, files>>

Analyze(y_true, y_pred_proba, sensitive_attr) ==
    /\ \E r \in {analyze(analyzer, y_true, y_pred_proba, sensitive_attr)} :
          /\ analyzer' = r.self
          /\ last' = [op |-> "analyze", before |-> [self |-> analyzer, analyzed |-> analyzed],
                      raised |-> None, ret |-> Some(r.value)]
    /\ analyzed' = TRUE
    /\ UNCHANGED <<detector, held, monitor, nobs, inserted, alerting, sends, calc, nalloc,
                   firstret, handed, now, dispatched, report, files>>

FindOptimalThreshold(fairness_metric, performance_metric, fairness_weight, optimal_idx, on_nan) ==
    /\ \E r \in {find_optimal_threshold(analyzer, fairness_metric, performance_metric,
                                        fairness_weight, optimal_idx, on_nan)} :
          /\ analyzer' = r.self
          /\ last' = [op |-> "find_optimal_threshold",
                      before |-> [self |-> analyzer, analyzed |-> analyzed],
                      raised |-> r.raised,
                      ret |-> IF r.raised = None THEN Some(r.value) ELSE Absent]
    /\ UNCHANGED <<detector, held, monitor, nobs, inserted, alerting, sends, calc, nalloc,
                   firstret, analyzed, handed, now, dispatched, report, files>>

PlotTradeoffCurve(fairness_metric, performance_metric) ==
    /\ \E r \in {plot_tradeoff_curve(analyzer, fairness_metric, performance_metric)} :
          last' = [op |-> "plot_tradeoff_curve",
                   before |-> [self |-> analyzer, analyzed |-> analyzed],
                   raised |-> r.raised,
                   ret |-> IF r.raised = None THEN Some(r.value) ELSE Absent]
    /\ UNCHANGED <<detector, held, monitor, nobs, inserted, alerting, sends, calc, nalloc,
                   firstret, analyzer, analyzed, handed, now, dispatched, report, files>>

GetThresholdRecommendation(use_case, optimal_idx, on_nan) ==
    /\ \E r \in {get_threshold_recommendation(analyzer, use_case, optimal_idx, on_nan)} :
          /\ analyzer' = r.self
          /\ last' = [op |-> "get_threshold_recommendation",
                      before |-> [self |-> analyzer, analyzed |-> analyzed],
                      raised |-> r.raised,
                      ret |-> IF r.raised = None THEN Some(r.value) ELSE Absent]
    /\ UNCHANGED <<detector, held, monitor, nobs, inserted, alerting, sends, calc, nalloc,
                   firstret, analyzed, handed, now, dispatched, report, files>>

\* the calculator makes one calculation; the analyzer analyzes any number of
\* times
NextQueries ==
    \/ /\ nalloc = 0
       /\ \E d \in DataSets :
             \/ CalculatePretrain(FrameOf(MaxLen), LabelsOf(d, MaxLen), GroupsOf(MaxLen))
             \/ CalculatePosttrain(LabelsOf(d, MaxLen), PredictionsOf(d, MaxLen),
                                   GroupsOf(MaxLen), Absent)
             \/ CalculateAll(LabelsOf(d, MaxLen), PredictionsOf(d, MaxLen), GroupsOf(MaxLen),
                             Absent, Absent)
    \/ ClearCache
    \/ \E pass \in BOOLEAN : GetRecommendations(pass)
    \/ \E d \in DataSets, n \in {MaxLen + 1} :
          Analyze(LabelsOf(d, n), ScoresOf(d, n), GroupsOf(n))
    \/ \E fairness_metric \in FairnessColumnNames,
          performance_metric \in PerformanceColumnNames,
          optimal_idx \in 1..Len(analyzer.thresholds), on_nan \in NanOutcomes :
          FindOptimalThreshold(fairness_metric, performance_metric, 5, optimal_idx, on_nan)
    \/ \E fairness_metric \in FairnessColumnNames,
          performance_metric \in PerformanceColumnNames :
          PlotTradeoffCurve(fairness_metric, performance_metric)
    \/ \E use_case \in UseCases, optimal_idx \in 1..Len(analyzer.thresholds),
          on_nan \in NanOutcomes :
          GetThresholdRecommendation(use_case, optimal_idx, on_nan)

SpecQueries == InitQueries /\ [][NextQueries]_vars

-----------------------------------------------------------------------------
(* Construction: a caller that holds no detector and no monitor constructs *)
(* a FairnessDriftDetector or a MetricsDriftMonitor, and uses what the     *)
(* constructor returned                                                    *)

NoDetector == [exists |-> FALSE]

NoMonitor == [exists |-> FALSE]

InitConstruct ==
    /\ detector = NoDetector
    /\ held = NoResult
    /\ monitor = NoMonitor
    /\ nobs = 0
    /\ inserted = << >>
    /\ alerting = IdleAlerting
    /\ sends = << >>
    /\ calc = IdleCalc
    /\ nalloc = 0
    /\ firstret = NoFirst
    /\ analyzer = IdleAnalyzer
    /\ analyzed = FALSE
    /\ handed = Handed(<< >>)
    /\ now = 0
    /\ dispatched = Absent
    /\ report = IdleReport
    /\ files = NoFiles
    /\ last = Started

\* d = FairnessDriftDetector(...): d is bound only when __init__ returns
ConstructDetector(baseline_metrics, method, threshold) ==
    /\ detector = NoDetector
    /\ \E c \in {FairnessDriftDetector_init(baseline_metrics, method, threshold)} :
          /\ detector' = IF c.raised = None THEN c.self ELSE detector
          /\ handed' = IF c.raised = None THEN Handed(baseline_metrics) ELSE handed
          /\ last' = [op |-> "FairnessDriftDetector", method |-> method, raised |-> c.raised]
    /\ UNCHANGED <<held, monitor, nobs, inserted, alerting, sends, calc, nalloc, firstret,
                   analyzer, analyzed, now, dispatched, report, files>>

\* m = MetricsDriftMonitor(...); m.detector is the variable detector
ConstructMonitor(baseline_metrics, window_size, method, threshold) ==
    /\ detector = NoDetector
    /\ \E c \in {MetricsDriftMonitor_new(baseline_metrics, window_size, method, threshold)} :
          /\ detector' = IF c.raised = None THEN c.detector ELSE detector
          /\ monitor' = IF c.raised = None THEN c.self ELSE monitor
          /\ handed' = IF c.raised = None THEN Handed(baseline_metrics) ELSE handed
          /\ last' = [op |-> "MetricsDriftMonitor", method |-> method, raised |-> c.raised]
    /\ UNCHANGED <<held, nobs, inserted, alerting, sends, calc, nalloc, firstret,
                   analyzer, analyzed, now, dispatched, report, files>>

NextConstruct ==
    \/ \E b \in InitBaselines, method \in MethodInputs, t \in Thresholds :
          ConstructDetector(b, method, t)
    \/ \E b \in MonitorBaselines, w \in WindowSizes, method \in MethodInputs, t \in Thresholds :
          ConstructMonitor(b, w, method, t)
    \/ /\ detector # NoDetector
       /\ \E new_metrics \in MetricMaps : Detect(new_metrics)
    \/ /\ monitor # NoMonitor
       /\ \E metrics \in ObsChoices : AddObservation(metrics, 1)

SpecConstruct == InitConstruct /\ [][NextConstruct]_vars

-----------------------------------------------------------------------------
(* FairnessReport (reports/fairness_report.py) over HTMLRenderer            *)
(* (reports/renderers/html_renderer.py).  The report's metrics,            *)
(* transformed_data and charts are fixed by its constructor; a rendered    *)
(* page is identified by the template it was rendered from and the         *)
(* timestamp put into its context.                                         *)

\* template_name's default value
DefaultTemplate == "fairness_report.html"

\* the *.html files in the renderer's template directory
TemplateNames == {DefaultTemplate, "summary.html"}

\* the names a caller asks for: the templates and a name that is no file
TemplateInputs == TemplateNames \cup {"missing.html"}

\* the paths a caller writes to
OutputPaths == {"report.html", "out/report.html"}

\* HTMLRenderer.render: env.get_template(template_name), then
\* template.render(**context) with context["timestamp"] = datetime.now()
HTMLRenderer_render(template_name, timestamp) ==
    IF template_name \notin TemplateNames
    THEN [raised |-> "TemplateNotFound", value |-> None]
    ELSE [raised |-> None, value |-> [template |-> template_name, timestamp |-> timestamp]]

\* HTMLRenderer.save: open(output_path, "w") and write; [raised, files]
HTMLRenderer_save(written, html, output_path, writable) ==
    IF ~writable
    THEN [raised |-> "OSError", files |-> written]
    ELSE [raised |-> None,
          files  |-> [p \in DOMAIN written \cup {output_path} |->
                         IF p = output_path THEN html ELSE written[p]]]

\* __init__: self._html = None
FairnessReport_init == [_html |-> Absent]

\* render_html: [raised, value, self]; renders only while self._html is None
render_html(self, template_name, timestamp) ==
    IF ~self._html.given
    THEN LET r == HTMLRenderer_render(template_name, timestamp)
         IN IF r.raised # None
            THEN [raised |-> r.raised, value |-> None, self |-> self]
            ELSE [raised |-> None, value |-> r.value,
                  self |-> [self EXCEPT !._html = Some(r.value)]]
    ELSE [raised |-> None, value |-> self._html.value, self |-> self]

\* the rest of save_html once render_html has returned
SaveRendered(rendered, written, output_path, writable) ==
    IF rendered.raised # None
    THEN [raised |-> rendered.raised, self |-> rendered.self, files |-> written]
    ELSE [raised |-> HTMLRenderer_save(written, rendered.value, output_path, writable).raised,
          self   |-> rendered.self,
          files  |-> HTMLRenderer_save(written, rendered.value, output_path, writable).files]

\* save_html: [raised, self, files]
save_html(self, written, output_path, template_name, timestamp, writable) ==
    SaveRendered(render_html(self, template_name, timestamp), written, output_path, writable)

\* show: save_html(output_path) with the default template, then the browser
\* is opened on the file; [raised, self, files, opened]
show(self, written, output_path, timestamp, writable) ==
    [raised |-> save_html(self, written, output_path, DefaultTemplate, timestamp, writable).raised,
     self   |-> save_html(self, written, output_path, DefaultTemplate, timestamp, writable).self,
     files  |-> save_html(self, written, output_path, DefaultTemplate, timestamp, writable).files,
     opened |-> IF save_html(self, written, output_path, DefaultTemplate, timestamp,
                             writable).raised = None
                THEN Some(output_path) ELSE Absent]

InitReport ==
    /\ detector = IdleDetector
    /\ held = NoResult
    /\ monitor = IdleMonitor
    /\ nobs = 0
    /\ inserted = << >>
    /\ alerting = IdleAlerting
    /\ sends = << >>
    /\ calc = IdleCalc
    /\ nalloc = 0
    /\ firstret = NoFirst
    /\ analyzer = IdleAnalyzer
    /\ analyzed = FALSE
    /\ handed = Handed(<< >>)
    /\ now = 0
    /\ dispatched = Absent
    /\ report = FairnessReport_init
    /\ files = NoFiles
    /\ last = [op |-> "init"]

RenderHtml(template_name) ==
    /\ \E r \in {render_html(report, template_name, now)} :
          /\ report' = r.self
          /\ last' = [op |-> "render_html", template_name |-> template_name,
                      before |-> report, raised |-> r.raised, ret |-> r.value]
    /\ UNCHANGED <<detector, held, monitor, nobs, inserted, alerting, sends, calc, nalloc, firstret, analyzer, analyzed, handed, now, dispatched, files>>

SaveHtml(output_path, template_name, writable) ==
    /\ \E r \in {save_html(report, files, output_path, template_name, now, writable)} :
          /\ report' = r.self
          /\ files' = r.files
          /\ last' = [op |-> "save_html", output_path |-> output_path,
                      template_name |-> template_name, before |-> report,
                      raised |-> r.raised]
    /\ UNCHANGED <<detector, held, monitor, nobs, inserted, alerting, sends, calc, nalloc, firstret, analyzer, analyzed, handed, now, dispatched>>

Show(output_path, writable) ==
    /\ \E r \in {show(report, files, output_path, now, writable)} :
          /\ report' = r.self
          /\ files' = r.files
          /\ last' = [op |-> "show", output_path |-> output_path,
                      template_name |-> DefaultTemplate, before |-> report,
                      raised |-> r.raised, opened |-> r.opened]
    /\ UNCHANGED <<detector, held, monitor, nobs, inserted, alerting, sends, calc, nalloc, firstret, analyzer, analyzed, handed, now, dispatched>>

NextReport ==
    \/ \E template_name \in TemplateInputs : RenderHtml(template_name)
    \/ \E output_path \in OutputPaths, template_name \in TemplateInputs, writable \in BOOLEAN :
          SaveHtml(output_path, template_name, writable)
    \/ \E output_path \in OutputPaths, writable \in BOOLEAN : Show(output_path, writable)
    \/ Tick

SpecReport == InitReport /\ [][NextReport]_vars

-----------------------------------------------------------------------------
(* Properties of the drift detector (SpecDetect) *)

\* the score a method's result must exceed for a metric to count as drifted
DriftBound(method, threshold) ==
    IF method = "psi" THEN 2500 * threshold ELSE 1000 * threshold

\* C5 as stated: the result of detect scores exactly the metrics that are in
\* both the baseline and new_metrics, drifted_metrics is drift_scores restricted
\* to the scores above the threshold, and has_drift says drifted_metrics is
\* non-empty.
C5_DetectAboveThreshold ==
    last.op = "detect" =>
        /\ last.raised = None
        /\ DOMAIN last.ret.drift_scores =
              (DOMAIN last.self.baseline_metrics) \cap (DOMAIN last.arg)
        /\ last.ret.drifted_metrics =
              [m \in {x \in DOMAIN last.ret.drift_scores :
                         last.ret.drift_scores[x] > 1000 * last.ret.threshold}
                  |-> last.ret.drift_scores[m]]
        /\ last.ret.has_drift = (DOMAIN last.ret.drifted_metrics # {})

\* C5 amended: as above, with drifted_metrics the scores above the bound of the
\* method: the threshold for 'threshold' and 'ks', 2.5 times the threshold for
\* 'psi'.
C5_DetectAboveMethodBound ==
    last.op = "detect" =>
        /\ last.raised = None
        /\ DOMAIN last.ret.drift_scores =
              (DOMAIN last.self.baseline_metrics) \cap (DOMAIN last.arg)
        /\ last.ret.drifted_metrics =
              [m \in {x \in DOMAIN last.ret.drift_scores :
                         last.ret.drift_scores[x] >
                            DriftBound(last.ret.method, last.ret.threshold)}
                  |-> last.ret.drift_scores[m]]
        /\ last.ret.has_drift = (DOMAIN last.ret.drifted_metrics # {})

\* a psi detection over metric sets that differ, with a score between the
\* threshold and 2.5 times the threshold
C5_Witness ==
    /\ last.op = "detect"
    /\ last.ret.method = "psi"
    /\ \E m \in DOMAIN last.ret.drift_scores :
          /\ last.ret.drift_scores[m] > 1000 * last.ret.threshold
          /\ m \notin DOMAIN last.ret.drifted_metrics
    /\ DOMAIN last.self.baseline_metrics # DOMAIN last.arg

\* C6: under the threshold method a metric whose absolute change equals the
\* threshold is not in drifted_metrics, and one whose absolute change is one
\* unit above the threshold is.
C6_ThresholdBoundary ==
    (last.op = "detect" /\ last.self.method = "threshold") =>
        \A m \in (DOMAIN last.self.baseline_metrics) \cap (DOMAIN last.arg) :
            LET change == Abs(last.arg[m] - last.self.baseline_metrics[m])
            IN /\ change = last.self.threshold =>
                     m \notin DOMAIN last.ret.drifted_metrics
               /\ change = last.self.threshold + 1 =>
                     m \in DOMAIN last.ret.drifted_metrics

\* one detection with a metric exactly at the threshold and one a unit above
C6_Witness ==
    /\ last.op = "detect"
    /\ last.self.method = "threshold"
    /\ last.self.threshold > 0
    /\ \E m1, m2 \in (DOMAIN last.self.baseline_metrics) \cap (DOMAIN last.arg) :
          /\ Abs(last.arg[m1] - last.self.baseline_metrics[m1]) = last.self.threshold
          /\ Abs(last.arg[m2] - last.self.baseline_metrics[m2]) = last.self.threshold + 1
          /\ DOMAIN last.ret.drifted_metrics = {m2}

-----------------------------------------------------------------------------
(* Properties of the drift monitor (SpecMonitor, SpecWindow) *)

\* the (timestamp, metrics) of a history entry
Inserted(entry) == [timestamp |-> entry.timestamp, metrics |-> entry.metrics]

\* C1: once window_size + k observations were added, the history holds exactly
\* window_size entries, the most recently added ones in the order they were
\* added.
C1_WindowEviction ==
    nobs >= monitor.window_size =>
        /\ Len(monitor.history) = monitor.window_size
        /\ \A i \in 1..Len(monitor.history) :
              Inserted(monitor.history[i]) = inserted[nobs - monitor.window_size + i]

\* C7: add_observation returns what detect gives for the metrics on the
\* detector's baseline, whatever the history holds, and appends one entry with
\* the timestamp, the metrics and that result.
C7_ObservationAgainstBaseline ==
    last.op = "add_observation" =>
        /\ last.raised = None
        /\ last.ret = detect(detector, last.arg).value
        /\ Len(monitor.history) >= 1
        /\ monitor.history[Len(monitor.history)] =
              [timestamp |-> last.timestamp, metrics |-> last.arg,
               drift_result |-> last.ret]
        /\ \E k \in 0..Len(last.before) :
              SubSeq(last.before, k + 1, Len(last.before)) =
                 SubSeq(monitor.history, 1, Len(monitor.history) - 1)

\* an observation that repeats the previous one and drifts from the baseline
C7_Witness ==
    /\ last.op = "add_observation"
    /\ Len(last.before) >= 1
    /\ last.before[Len(last.before)].metrics = last.arg
    /\ last.ret.has_drift

\* C8: check_drift reports drift exactly when more than 0.3 of the entries in
\* the window have drifted; an empty history gives no drift and 0 observations.
C8_WindowDriftFraction ==
    last.op = "check_drift" =>
        LET n == Len(monitor.history)
            d == Cardinality({i \in 1..n : monitor.history[i].drift_result.has_drift})
        IN IF n = 0
           THEN last.ret.has_drift = FALSE /\ last.ret.num_observations = 0
           ELSE /\ last.ret.has_drift = (10 * d > 3 * n)
                /\ last.ret.num_observations = n

\* 3 drifted entries of 10 after an eviction, reported as no drift
C8_Witness ==
    /\ last.op = "check_drift"
    /\ nobs > Len(monitor.history)
    /\ Len(monitor.history) = 10
    /\ Cardinality({i \in 1..10 : monitor.history[i].drift_result.has_drift}) = 3
    /\ \E i \in 1..(nobs - 10) :
          detect(detector, inserted[i].metrics).value.has_drift
    /\ last.ret.has_drift = FALSE

-----------------------------------------------------------------------------
(* Properties of the alerting dispatcher (SpecAlert) *)

\* the names of a sequence of sends
RECURSIVE SentNames(_)
SentNames(sent) ==
    IF sent = << >> THEN << >> ELSE <<Head(sent).channel>> \o SentNames(Tail(sent))

\* C3: when send_drift_alert dispatches, the send of every registered channel is
\* invoked exactly once, the returned map has exactly the registered names as
\* keys, a channel whose send raises is recorded as False, and no exception
\* reaches the caller.
C3_FanOutIsolation ==
    (last.op = "send_drift_alert" /\ last.dispatched) =>
        /\ last.raised = None
        /\ \A name \in DOMAIN alerting.channels :
              Cardinality({i \in 1..Len(sends) : sends[i].channel = name}) = 1
        /\ \A i \in 1..Len(sends) : sends[i].channel \in DOMAIN alerting.channels
        /\ DOMAIN last.ret = DOMAIN alerting.channels
        /\ \A name \in DOMAIN alerting.channels :
              last.ret[name] = (alerting.channels[name] = "ok")

\* a dispatch to two channels of which the first raises and the second succeeds
C3_Witness ==
    /\ last.op = "send_drift_alert"
    /\ last.dispatched
    /\ Len(alerting.order) = 2
    /\ alerting.channels[alerting.order[1]] = "raise"
    /\ alerting.channels[alerting.order[2]] = "ok"
    /\ last.ret[alerting.order[1]] = FALSE
    /\ last.ret[alerting.order[2]] = TRUE

\* the rank of a severity under low(1) < medium(2) < high(3)
Rank(severity) ==
    IF severity = "high" THEN 3 ELSE IF severity = "medium" THEN 2 ELSE 1

\* C4: send_drift_alert returns an empty map and invokes no send when alerting
\* is disabled, the result has no drift, or the severity of the result ranks
\* below config.severity_threshold; in every other case it dispatches.
C4_AlertGating ==
    last.op = "send_drift_alert" =>
        LET summary == get_drift_summary(detector, last.arg)
            below == /\ summary.raised = None
                     /\ Rank(summary.value.severity) <
                           Rank(alerting.config.severity_threshold)
        IN IF ~alerting.config.enabled \/ ~last.arg.has_drift \/ below
           THEN last.raised = None /\ last.ret = << >> /\ sends = << >>
           ELSE /\ last.raised = None
                /\ DOMAIN last.ret = DOMAIN alerting.channels
                /\ SentNames(sends) = alerting.order

\* C4 where get_drift_summary returns: the same gating, for the calls in which
\* the detector's baseline is not empty
C4_AlertGatingWithSummary ==
    (last.op = "send_drift_alert" /\ get_drift_summary(detector, last.arg).raised = None) =>
        LET summary == get_drift_summary(detector, last.arg)
            below == Rank(summary.value.severity) <
                        Rank(alerting.config.severity_threshold)
        IN IF ~alerting.config.enabled \/ ~last.arg.has_drift \/ below
           THEN last.raised = None /\ last.ret = << >> /\ sends = << >>
           ELSE /\ last.raised = None
                /\ DOMAIN last.ret = DOMAIN alerting.channels
                /\ SentNames(sends) = alerting.order

\* a medium-severity result held back by a threshold of high, with a channel
\* registered
C4_WitnessBelowThreshold ==
    /\ last.op = "send_drift_alert"
    /\ alerting.config.enabled
    /\ last.arg.has_drift
    /\ get_drift_summary(detector, last.arg).raised = None
    /\ get_drift_summary(detector, last.arg).value.severity = "medium"
    /\ alerting.config.severity_threshold = "high"
    /\ alerting.order # << >>
    /\ last.ret = << >>

-----------------------------------------------------------------------------
(* Properties of the fairness calculator (SpecCalc, SpecMetrics) *)

\* the kind of call an operation makes on the calculator
KindOf(op) == IF op = "calculate_pretrain_metrics" THEN "pretrain" ELSE "posttrain"

\* the pretrain or posttrain object a successful call returned
Returned(call) ==
    IF call.op = "calculate_all" THEN call.ret.value.posttrain ELSE call.ret.value

\* the result a call computes from its own inputs
OwnResult(call) ==
    IF call.op = "calculate_pretrain_metrics"
    THEN PretrainResults(call.X, call.y, call.sensitive_attr).value
    ELSE PosttrainResults(call.y_true, call.y_pred, call.sensitive_attr,
                          call.y_pred_proba)

\* C2: with cache_results=True, once a call of a kind has succeeded, every
\* later call of that kind that passes validation returns the identical
\* object (same identity, whatever its inputs), until clear_cache(); the
\* first successful call after construction or after clear_cache() returns
\* an object never returned before, computed from its own inputs.
C2_CacheIdentity ==
    (/\ last.op \in {"calculate_pretrain_metrics", "calculate_posttrain_metrics",
                     "calculate_all"}
     /\ last.before.self.cache_results
     /\ last.raised # "ValueError")
    => IF last.before.firstret[KindOf(last.op)].given
       THEN /\ last.raised = None
            /\ Returned(last) = last.before.firstret[KindOf(last.op)].value
       ELSE last.raised = None =>
               /\ Returned(last).id > last.before.nalloc
               /\ Returned(last).value = OwnResult(last)

\* a second calculate_posttrain_metrics call whose inputs give another
\* result than the one it returned
C2_Witness ==
    /\ last.op = "calculate_posttrain_metrics"
    /\ last.before.self.cache_results
    /\ last.before.firstret["posttrain"].given
    /\ last.raised = None
    /\ last.ret.value.value # OwnResult(last)

\* the number of the four basic checks that fail in a posttrain result
FailedChecks(posttrain) ==
    Cardinality({check \in {"statistical_parity", "equal_opportunity", "equalized_odds"} :
                    ~posttrain[check].is_fair})
    + (IF posttrain.disparate_impact.passes_80_rule THEN 0 ELSE 1)

\* C9: the summary's overall score is 100 * (4 - v) / 4 for v the number of
\* failed checks among statistical parity is_fair, disparate impact
\* passes_80_rule, equal opportunity is_fair and equalized odds is_fair (so
\* 100 for v = 0, 0 for v = 4, and smaller for every larger v); n_violations
\* is the length of fairness_violations and equals v; passes_basic_fairness
\* is true exactly when v = 0.
C9_SummaryScore ==
    (last.op = "calculate_all" /\ last.raised = None)
    => LET summary == last.ret.value.summary
           v == FailedChecks(last.ret.value.posttrain.value)
       IN /\ summary.overall_fairness_score * 4 = 100 * (4 - v)
          /\ (v = 0 => summary.overall_fairness_score = 100)
          /\ (v = 4 => summary.overall_fairness_score = 0)
          /\ summary.n_violations = Len(summary.fairness_violations)
          /\ summary.n_violations = v
          /\ summary.passes_basic_fairness <=> (v = 0)

\* a summary of a batch in which the equalized odds check alone fails
C9_Witness ==
    /\ last.op = "calculate_all"
    /\ last.raised = None
    /\ last.ret.value.summary.fairness_violations = <<"equalized_odds">>
    /\ last.ret.value.summary.overall_fairness_score = 75

\* C10: calculate_pretrain_metrics(X, y, group) fails whenever the three
\* lengths are not all equal.
C10_PretrainLengthMismatch ==
    (/\ last.op = "calculate_pretrain_metrics"
     /\ ~(Len(last.X) = Len(last.y) /\ Len(last.y) = Len(last.sensitive_attr)))
    => last.raised # None

\* the lengths of the arrays a posttrain or calculate_all call was given
LengthsOf(call) ==
    {Len(call.y_true), Len(call.y_pred), Len(call.sensitive_attr)}
    \cup (IF call.y_pred_proba.given THEN {Len(call.y_pred_proba.value)} ELSE {})
    \cup (IF call.op = "calculate_all" /\ call.X.given THEN {Len(call.X.value)} ELSE {})

\* C11: a calculate_posttrain_metrics or calculate_all call whose arrays do not
\* all have the same length raises ValueError, on every call (also when a
\* result of that kind is cached), computes no metric (no result object is
\* made) and leaves the cache as it was.
C11_MismatchFailsFast ==
    (/\ last.op \in {"calculate_posttrain_metrics", "calculate_all"}
     /\ Cardinality(LengthsOf(last)) > 1)
    => /\ last.raised = "ValueError"
       /\ calc.cache = last.before.self.cache
       /\ nalloc = last.before.nalloc

\* a mismatching calculate_posttrain_metrics call on a calculator that holds a
\* cached posttrain result
C11_Witness ==
    /\ last.op = "calculate_posttrain_metrics"
    /\ Cardinality(LengthsOf(last)) > 1
    /\ "posttrain" \in DOMAIN last.before.self.cache
    /\ last.raised = "ValueError"

-----------------------------------------------------------------------------
(* Properties of the queries that need an earlier computation (SpecQueries) *)

\* C12: get_recommendations() called without results on a calculator that
\* holds no post-training result, and find_optimal_threshold,
\* plot_tradeoff_curve and get_threshold_recommendation called on an analyzer
\* on which analyze has not been called, raise ValueError; none returns a value
C12_QueryBeforeCompute ==
    /\ (/\ last.op = "get_recommendations"
        /\ ~last.results.given
        /\ "posttrain" \notin DOMAIN last.before.self.cache)
       => (last.raised = "ValueError" /\ ~last.ret.given)
    /\ (/\ last.op \in {"find_optimal_threshold", "plot_tradeoff_curve",
                        "get_threshold_recommendation"}
        /\ ~last.before.analyzed)
       => (last.raised = "ValueError" /\ ~last.ret.given /\ analyzer = last.before.self)

\* get_threshold_recommendation has raised on an analyzer that was never
\* given data to analyze
C12_Witness ==
    /\ last.op = "get_threshold_recommendation"
    /\ ~last.before.analyzed
    /\ ~last.before.self.results_.given
    /\ last.raised = "ValueError"

-----------------------------------------------------------------------------
(* Properties of the calculator under repeated calls (SpecCalc) *)

\* C13: the dict a calculate_posttrain_metrics call returns has the key
\* 'calibration' exactly when y_pred_proba was supplied to that call, whatever
\* calls were made on the calculator before
C13_CalibrationIffProba ==
    (last.op = "calculate_posttrain_metrics" /\ last.raised = None)
    => ("calibration" \in DOMAIN last.ret.value.value <=> last.y_pred_proba.given)

-----------------------------------------------------------------------------
(* Properties of the drift summary (SpecDetect) *)

\* the severity the rule assigns to a result of which num_drifted of total
\* metrics drifted, the scores of the drifted metrics adding up to sum_drift
\* (mean > k x threshold is sum > k x threshold x num_drifted)
SeverityRule(has_drift, num_drifted, total, sum_drift, threshold) ==
    IF ~has_drift THEN "none"
    ELSE IF num_drifted * 100 >= 50 * total \/ sum_drift > 3 * threshold * 1000 * num_drifted
    THEN "high"
    ELSE IF num_drifted * 100 >= 25 * total \/ sum_drift > 2 * threshold * 1000 * num_drifted
    THEN "medium"
    ELSE "low"

SeverityOf(self, result) ==
    SeverityRule(result.has_drift, Cardinality(DOMAIN result.drifted_metrics),
                 Cardinality(DOMAIN self.baseline_metrics),
                 SumOver(result.drifted_metrics, DOMAIN result.drifted_metrics),
                 self.threshold)

\* C14: get_drift_summary assigns severity "none" exactly when the result has
\* no drift; otherwise "high" if at least 50% of the metrics drifted or the
\* mean score of the drifted metrics exceeds 3 x threshold, else "medium" if at
\* least 25% drifted or the mean exceeds 2 x threshold, else "low"
C14_SeverityRule ==
    last.op = "get_drift_summary"
    => /\ last.raised = None
       /\ last.ret.severity = SeverityOf(last.self, last.arg)

\* the same for the summaries of a detector whose baseline is not empty
C14_SeverityRuleOnMetrics ==
    (last.op = "get_drift_summary" /\ last.self.baseline_metrics # << >>)
    => /\ last.raised = None
       /\ last.ret.severity = SeverityOf(last.self, last.arg)

-----------------------------------------------------------------------------
(* Properties of construction (SpecConstruct) *)

\* C15: constructing a FairnessDriftDetector, or a MetricsDriftMonitor, with
\* a method other than "threshold", "psi" or "ks" raises ValueError and leaves
\* the caller without the object; so every detector that exists has a
\* supported method and no detect or add_observation call fails on the method
C15_UnsupportedMethodFailsFast ==
    /\ (/\ last.op \in {"FairnessDriftDetector", "MetricsDriftMonitor"}
        /\ last.method \notin {"threshold", "psi", "ks"})
       => (last.raised = "ValueError" /\ detector = NoDetector /\ monitor = NoMonitor)
    /\ detector # NoDetector => detector.method \in {"threshold", "psi", "ks"}
    /\ last.op \in {"detect", "add_observation"} => last.raised = None

\* the construction of a monitor with an unsupported method has raised
C15_Witness ==
    /\ last.op = "MetricsDriftMonitor"
    /\ last.method = "chi2"
    /\ last.raised = "ValueError"
    /\ monitor = NoMonitor

-----------------------------------------------------------------------------
(* Properties of update_baseline (SpecDetect) *)

\* C16: after update_baseline(b) the detector's baseline is b alone: a detect
\* scores exactly the metrics of new_metrics that are keys of b, metrics that
\* only the replaced baseline had are not scored, and the result is the one a
\* detector constructed with b returns
C16_BaselineReplaced ==
    (last.op = "detect" /\ handed.replaced.given)
    => /\ last.raised = None
       /\ DOMAIN last.ret.drift_scores = (DOMAIN handed.baseline) \cap (DOMAIN last.arg)
       /\ last.ret = detect([baseline_metrics |-> handed.baseline,
                             method           |-> last.self.method,
                             threshold        |-> last.self.threshold],
                            last.arg).value

\* a detect after an update_baseline that dropped a metric of the replaced
\* baseline and kept another: new_metrics has both, only the kept one is scored
C16_Witness ==
    /\ last.op = "detect"
    /\ handed.replaced.given
    /\ \E m \in DOMAIN last.arg :
          /\ m \in DOMAIN handed.replaced.value
          /\ m \notin DOMAIN handed.baseline
          /\ m \notin DOMAIN last.ret.drift_scores
    /\ \E m \in DOMAIN last.ret.drift_scores :
          /\ m \in DOMAIN handed.replaced.value
          /\ handed.replaced.value[m] # handed.baseline[m]

-----------------------------------------------------------------------------
(* Properties of alerting over time (SpecRate) *)

\* C17: with rate_limit_seconds = R > 0, a send_drift_alert made less than R
\* seconds after a send_drift_alert that dispatched an alert dispatches to no
\* channel; with R = 0 a send_drift_alert that passes the gates dispatches to
\* every channel
C17_RateLimit ==
    last.op = "send_drift_alert"
    => /\ (/\ alerting.config.rate_limit_seconds > 0
           /\ last.since.given
           /\ last.at - last.since.value < alerting.config.rate_limit_seconds)
          => sends = << >>
       /\ (alerting.config.rate_limit_seconds = 0 /\ last.dispatched)
          => Len(sends) = Cardinality(DOMAIN alerting.channels)

-----------------------------------------------------------------------------
(* Properties of the group metric functions on degenerate batches          *)
(* (SpecMetrics)                                                           *)

\* the cross-group difference fields of a post-training result
DifferencesOf(posttrain) ==
    {posttrain.statistical_parity.difference,
     posttrain.equal_opportunity.difference,
     posttrain.equalized_odds.tpr_difference,
     posttrain.equalized_odds.fpr_difference,
     posttrain.false_negative_rate_diff.difference,
     posttrain.predictive_parity.difference,
     posttrain.negative_predictive_parity.difference,
     posttrain.accuracy_difference.difference,
     posttrain.treatment_equality.difference}
    \cup (IF "calibration" \in DOMAIN posttrain
          THEN {posttrain["calibration"].difference} ELSE {})

\* the cross-group ratio fields of a post-training result
RatiosOf(posttrain) ==
    {posttrain.statistical_parity.ratio, posttrain.disparate_impact.ratio}

\* a ratio that is 1.0
IsOne(ratio) == ratio[1] = ratio[2] /\ ratio[2] > 0

\* C18: a batch with exactly one distinct group value yields every
\* cross-group difference equal to 0 and every cross-group ratio equal to 1.0,
\* whatever the labels and the predictions are
C18_SingleGroupNeutral ==
    (/\ last.op = "calculate_all"
     /\ Cardinality(Elems(last.sensitive_attr)) = 1)
    => /\ last.raised = None
       /\ DifferencesOf(last.ret.value.posttrain.value) = {0}
       /\ \A ratio \in RatiosOf(last.ret.value.posttrain.value) : IsOne(ratio)

\* a single-group batch with probabilities, with predictions that are wrong
\* both ways and a selection rate strictly between 0 and 1
C18_Witness ==
    /\ last.op = "calculate_all"
    /\ Cardinality(Elems(last.sensitive_attr)) = 1
    /\ last.y_pred_proba.given
    /\ last.raised = None
    /\ \E i, j, k \in DOMAIN last.y_true :
          /\ last.y_true[i] = 1 /\ last.y_pred[i] = 0
          /\ last.y_true[j] = 0 /\ last.y_pred[j] = 1
          /\ last.y_true[k] = 1 /\ last.y_pred[k] = 1

\* the fairness flags of a post-training result
FlagsOf(posttrain) ==
    {posttrain.statistical_parity.is_fair,
     posttrain.disparate_impact.passes_80_rule,
     posttrain.equal_opportunity.is_fair,
     posttrain.equalized_odds.is_fair,
     posttrain.false_negative_rate_diff.is_fair,
     posttrain.predictive_parity.is_fair,
     posttrain.negative_predictive_parity.is_fair,
     posttrain.accuracy_difference.is_fair,
     posttrain.treatment_equality.is_fair}
    \cup (IF "calibration" \in DOMAIN posttrain
          THEN {posttrain["calibration"].is_fair} ELSE {})

\* C19: calculate_all on an empty batch (n = 0, no groups) does not fail:
\* every difference is 0, the selection-rate ratio is 1.0, every is_fair and
\* passes_80_rule flag is true, and the summary has score 100 and no violations
C19_EmptyBatchNeutral ==
    (last.op = "calculate_all" /\ last.y_true = << >>)
    => /\ last.raised = None
       /\ DifferencesOf(last.ret.value.posttrain.value) = {0}
       /\ \A ratio \in RatiosOf(last.ret.value.posttrain.value) : IsOne(ratio)
       /\ FlagsOf(last.ret.value.posttrain.value) = {TRUE}
       /\ last.ret.value.summary.overall_fairness_score = 100
       /\ last.ret.value.summary.fairness_violations = << >>
       /\ last.ret.value.summary.passes_basic_fairness

\* calculate_all has returned for an empty batch passed with an empty array
\* of probabilities
C19_Witness ==
    /\ last.op = "calculate_all"
    /\ last.y_true = << >> /\ last.y_pred = << >> /\ last.sensitive_attr = << >>
    /\ last.y_pred_proba.given
    /\ last.raised = None
    /\ "calibration" \in DOMAIN last.ret.value.posttrain.value
    /\ last.ret.value.posttrain.value.disparate_impact.by_group = << >>

\* the rows of group g in the arguments of the last call
RowsOfLast(g) == Rows(last.sensitive_attr, g)

\* C20: no batch makes a zero denominator raise: a group's TPR, FPR, FNR, PPV
\* and NPV are 0.0 when the count they divide by is 0, and the min/max
\* selection-rate ratio of statistical_parity and of disparate_impact is 1.0
\* when the largest selection rate is 0
C20_ZeroDenominatorDefaults ==
    last.op = "calculate_all"
    => /\ last.raised = None
       /\ \A g \in Elems(last.sensitive_attr) :
             /\ (TP(last.y_true, last.y_pred, RowsOfLast(g))
                 + FN(last.y_true, last.y_pred, RowsOfLast(g)) = 0)
                => /\ last.ret.value.posttrain.value.equal_opportunity.by_group[g].tpr = 0
                   /\ last.ret.value.posttrain.value.equalized_odds.by_group[g].tpr = 0
                   /\ last.ret.value.posttrain.value.false_negative_rate_diff.by_group[g].fnr = 0
             /\ (FP(last.y_true, last.y_pred, RowsOfLast(g))
                 + TN(last.y_true, last.y_pred, RowsOfLast(g)) = 0)
                => last.ret.value.posttrain.value.equalized_odds.by_group[g].fpr = 0
             /\ (TP(last.y_true, last.y_pred, RowsOfLast(g))
                 + FP(last.y_true, last.y_pred, RowsOfLast(g)) = 0)
                => last.ret.value.posttrain.value.predictive_parity.by_group[g].ppv = 0
             /\ (TN(last.y_true, last.y_pred, RowsOfLast(g))
                 + FN(last.y_true, last.y_pred, RowsOfLast(g)) = 0)
                => last.ret.value.posttrain.value.negative_predictive_parity.by_group[g].npv = 0
       /\ (\A i \in DOMAIN last.y_pred : last.y_pred[i] = 0)
          => \A ratio \in RatiosOf(last.ret.value.posttrain.value) : IsOne(ratio)

\* two groups, nobody selected, one group without positive labels and the
\* other without negative labels
C20_Witness ==
    /\ last.op = "calculate_all"
    /\ last.raised = None
    /\ Cardinality(Elems(last.sensitive_attr)) = 2
    /\ \A i \in DOMAIN last.y_pred : last.y_pred[i] = 0
    /\ \E g \in Elems(last.sensitive_attr) : \A i \in RowsOfLast(g) : last.y_true[i] = 0
    /\ \E g \in Elems(last.sensitive_attr) : \A i \in RowsOfLast(g) : last.y_true[i] = 1
    /\ last.ret.value.posttrain.value.statistical_parity.ratio = <<1, 1>>

\* the false negatives and false positives of group g in the last call
FnOfLast(g) == FN(last.y_true, last.y_pred, RowsOfLast(g))

FpOfLast(g) == FP(last.y_true, last.y_pred, RowsOfLast(g))

\* the groups of the last call that have FP > 0 or FN = 0
FiniteGroupsOfLast == {g \in Elems(last.sensitive_attr) : FpOfLast(g) > 0 \/ FnOfLast(g) = 0}

ThresholdTwin == detect([last.self EXCEPT !.method = "threshold"], last.arg)

\* C22: a detector using method "ks" returns the same has_drift,
\* drifted_metrics and drift_scores as a detector using method "threshold" on
\* the same baseline, new_metrics and threshold; the results differ only in
\* the method tag and the details
C22_KsEqualsThreshold ==
    (last.op = "detect" /\ last.self.method = "ks")
    => /\ last.raised = None
       /\ ThresholdTwin.raised = None
       /\ last.ret.has_drift = ThresholdTwin.value.has_drift
       /\ last.ret.drifted_metrics = ThresholdTwin.value.drifted_metrics
       /\ last.ret.drift_scores = ThresholdTwin.value.drift_scores
       /\ last.ret.threshold = ThresholdTwin.value.threshold
       /\ last.ret.method = "ks"
       /\ ThresholdTwin.value.method = "threshold"
       /\ last.ret.details # ThresholdTwin.value.details

\* a "ks" detect that scored two metrics, one of them exactly at the threshold
\* and not drifted, the other drifted
C22_Witness ==
    /\ last.op = "detect"
    /\ last.self.method = "ks"
    /\ last.raised = None
    /\ last.ret.has_drift
    /\ \E m \in DOMAIN last.ret.drift_scores :
          /\ m \notin DOMAIN last.ret.drifted_metrics
          /\ last.ret.drift_scores[m] = last.self.threshold * 1000

\* the positions of the history whose result scored metric m
ScoredAt(m) ==
    {i \in 1..Len(monitor.history) : m \in DOMAIN monitor.history[i].drift_result.drift_scores}

\* the k-th position, in the order of the history, at which m was scored
NthScoredAt(m, k) ==
    CHOOSE i \in ScoredAt(m) : Cardinality({j \in ScoredAt(m) : j <= i}) = k

\* C23: get_drift_trend maps each metric name scored in the retained history
\* to that metric's drift scores over the retained entries, in insertion
\* order; the history holds entries in the order they were added, and nothing
\* but the scores of the entries it holds appears
C23_TrendOverWindow ==
    last.op = "get_drift_trend" =>
        /\ last.raised = None
        /\ DOMAIN last.ret = {m \in BaselineNames : ScoredAt(m) # {}}
        /\ \A m \in DOMAIN last.ret :
              /\ Len(last.ret[m]) = Cardinality(ScoredAt(m))
              /\ \A k \in 1..Len(last.ret[m]) :
                    last.ret[m][k] =
                       monitor.history[NthScoredAt(m, k)].drift_result.drift_scores[m]
        /\ \A i \in 1..Len(monitor.history) :
              /\ monitor.history[i].timestamp \in 1..nobs
              /\ Inserted(monitor.history[i]) = inserted[monitor.history[i].timestamp]
              /\ i > 1 => monitor.history[i - 1].timestamp < monitor.history[i].timestamp

\* a trend read after an eviction on a detector whose baseline was never
\* replaced: one retained entry scored nothing, and the evicted observation
\* had a score for "sp" that the trend does not show
C23_Witness ==
    /\ last.op = "get_drift_trend"
    /\ handed.replaced = Absent
    /\ Len(monitor.history) = 2
    /\ nobs = 3
    /\ monitor.history[1].timestamp = 2
    /\ \E i \in 1..2 : DOMAIN monitor.history[i].drift_result.drift_scores = {}
    /\ "sp" \in DOMAIN last.ret
    /\ "sp" \in DOMAIN detect(detector, inserted[1].metrics).value.drift_scores
    /\ \A k \in 1..Len(last.ret["sp"]) :
          last.ret["sp"][k] # detect(detector, inserted[1].metrics).value.drift_scores["sp"]

\* the fields of a DriftResult the caller reads
FieldsOf(result) ==
    [has_drift       |-> result.has_drift,
     drifted_metrics |-> result.drifted_metrics,
     drift_scores    |-> result.drift_scores,
     method          |-> result.method,
     threshold       |-> result.threshold]

C25_HistoryBounded == Len(monitor.history) <= monitor.window_size

\* the same bound for the window sizes above 0
C25_HistoryBoundedAboveZero ==
    monitor.window_size > 0 => Len(monitor.history) <= monitor.window_size

\* C26: for every result of detect and every later state of the detector,
\* also after update_baseline to an empty baseline, get_drift_summary does not
\* raise and gives a severity among none, low, medium, high
C26_SummaryNeverRaises ==
    last.op = "get_drift_summary" =>
        /\ last.raised = None
        /\ last.ret.severity \in {"none", "low", "medium", "high"}

\* the same while the detector's baseline is not empty
C26_SummaryOnNonEmptyBaseline ==
    (last.op = "get_drift_summary" /\ DOMAIN last.self.baseline_metrics # {}) =>
        /\ last.raised = None
        /\ last.ret.severity \in {"none", "low", "medium", "high"}

\* C27: once calculate_posttrain_metrics or calculate_all has completed
\* successfully and clear_cache has not been called since,
\* get_recommendations() without argument returns a non-empty list and does
\* not raise, whether cache_results is True or False
C27_RecommendationsAfterCompute ==
    (/\ last.op = "get_recommendations"
     /\ ~last.results.given
     /\ firstret["posttrain"].given)
    => /\ last.raised = None
       /\ last.ret.given
       /\ Len(last.ret.value) > 0

\* the same for a calculator constructed with cache_results=True
C27_RecommendationsWhenCaching ==
    (/\ last.op = "get_recommendations"
     /\ ~last.results.given
     /\ firstret["posttrain"].given
     /\ last.before.self.cache_results)
    => /\ last.raised = None
       /\ last.ret.given
       /\ Len(last.ret.value) > 0

\* the names in fairness_violations of the summary the last call returned
ViolationsOfLast ==
    {last.ret.value.summary.fairness_violations[i] :
        i \in 1..Len(last.ret.value.summary.fairness_violations)}

\* C28: in every summary of calculate_all an "equal_opportunity" violation
\* comes with an "equalized_odds" violation: both compare the same difference
\* of the groups' true positive rates with 0.1
C28_OpportunityImpliesOdds ==
    (last.op = "calculate_all" /\ last.raised = None)
    => /\ "equal_opportunity" \in ViolationsOfLast => "equalized_odds" \in ViolationsOfLast
       /\ last.ret.value.posttrain.value.equal_opportunity.difference
          = last.ret.value.posttrain.value.equalized_odds.tpr_difference

\* both violations are reported while the false positive rates of the groups
\* are equal
C28_Witness ==
    /\ last.op = "calculate_all"
    /\ last.raised = None
    /\ "equal_opportunity" \in ViolationsOfLast
    /\ "equalized_odds" \in ViolationsOfLast
    /\ last.ret.value.posttrain.value.equalized_odds.fpr_difference = 0

\* C29: in every state of a monitor, monitor.baseline_metrics equals the
\* baseline its detector compares against, also after update_baseline was
\* called on that detector
C29_MonitorBaselineInSync == monitor.baseline_metrics = detector.baseline_metrics

\* the same while update_baseline has not been called on the detector
C29_InSyncUntilUpdate ==
    handed.replaced = Absent => monitor.baseline_metrics = detector.baseline_metrics

-----------------------------------------------------------------------------
(* Properties of the report (SpecReport) *)

\* C30: render_html(template_name) returns the HTML rendered from the
\* requested template on every call, also when an earlier render_html,
\* save_html or show call on the same report used another template_name
C30_RendersRequestedTemplate ==
    (last.op = "render_html" /\ last.raised = None)
    => last.ret.template = last.template_name

\* the same for the calls made while the report has no HTML cached
C30_RendersRequestedOnFirstRender ==
    (last.op = "render_html" /\ last.raised = None /\ ~last.before._html.given)
    => (last.ret.template = last.template_name /\ last.ret.timestamp = now)

====
